---- MODULE Spec2Model ----
(***************************************************************************)
(* Model of the video-sequencer segment pipeline.                          *)
(*                                                                         *)
(* The main specification (Spec) is the v2.9.4 batch handler               *)
(* POST /api/sequence-videos of src/server.js (lines 274-511): timeline    *)
(* construction, batching, per-segment fetch + normalize, per-batch        *)
(* concat, final assembly and the response.  SpecBatching applies the      *)
(* batching loop alone to a wider range of timelines and batch sizes, and  *)
(* SpecLegacy is the first serverless handler (src/unnamed/part_004),      *)
(* SpecZoom the v2.5.2 zoom handler (src/unnamed/part_003, 721-941) and   *)
(* SpecConcurrent two runs of the batch handler sharing /tmp.             *)
(* SpecScenario is the batch handler on one fixed request, SpecFetch the   *)
(* receipt of one response body, and SpecSubtitles the add-subtitles       *)
(* handler v2.9.3 (src/unnamed/part_003, 391-647).                         *)
(* SpecBatchLoop follows the batching loop one iteration at a time, for    *)
(* every batchSize a request can carry, and SpecLive is Spec with the      *)
(* scheduling of the handler's steps, the fetches and the timers.          *)
(*                                                                         *)
(* JavaScript arrays are 0-based; sequences here are 1-based, so the       *)
(* element with JavaScript index j is element j+1 of the sequence.  The    *)
(* loop counters batchIndex and i keep their 0-based JavaScript values.    *)
(***************************************************************************)
EXTENDS Integers, Sequences, FiniteSets, TLC

\* ---------------------------------------------------------------- bounds
\* longest videoUrls / keyframes list of a request of Spec
MaxLen == 3
\* largest batchSize a request of Spec carries
MaxBatchSize == 2
\* longest timeline and largest batchSize of SpecBatching
MaxTimeline == 5
MaxSplit == 6
\* longest videoUrls list of SpecLegacy
MaxLegacyUrls == 4
\* the two-run model: longest timeline of a run, and the last clock value
MaxRunLen == 2
MaxClock == 1
\* largest response body of SpecFetch, in MB
MaxBody == 17
\* longest subtitles array of SpecSubtitles
MaxSubtitles == 2

\* ------------------------------------------------------ program constants
\* batchSize = 3 when the request body has none
DefaultBatchSize == 3
\* '-t', '5' of the per-segment transcode
ClipSeconds == 5
\* videoUrls.slice(0, 3) of the legacy handler
LegacyLimit == 3

\* the output options of one transcoder invocation
Options(seconds, preset, crf, width, height, zoom, frameRate, pixFmt) ==
  [seconds |-> seconds, videoCodec |-> "libx264", audioCodec |-> "aac",
   preset |-> preset, crf |-> crf, width |-> width, height |-> height,
   zoom |-> zoom, frameRate |-> frameRate, pixFmt |-> pixFmt]

\* the per-segment options of the batch handler
NormalizeOptions == Options(ClipSeconds, "ultrafast", 30, 640, 1138, FALSE, 20, "input")

VARIABLES
  req,              \* req.body: [videoUrls, tracks, batchSize]
  pc,               \* position of the async handler
  timeline,         \* let timeline
  batches,          \* const batches
  batchIndex,       \* loop counter of the batch loop (0-based)
  i,                \* loop counter of the segment loop (0-based)
  processedFiles,   \* const processedFiles of the current batch
  batchOutputs,     \* const batchOutputs
  finalOutputPath,  \* let finalOutputPath
  fs,               \* scratch directory: path -> file value
  running,          \* transcoder processes whose promise timed out
  outcomes,         \* how each attempted segment ended
  fetchLog,         \* fetch() invocations, in order
  ffmpegLog,        \* per-segment transcoder invocations, in order
  concatCalls,      \* concat-demuxer invocations, in order
  response,         \* what res.json received
  lreq,             \* legacy handler: [method, videoUrls]
  lpc,              \* legacy handler: position
  li,               \* legacy handler: download loop counter (0-based)
  localFiles,       \* legacy handler: const localFiles
  lconcat,          \* legacy handler: concat invocations
  lresponse,        \* legacy handler: HTTP status sent (0 = none yet)
  runs,             \* two concurrent runs of the batch handler: their positions
  touched,          \* two concurrent runs: the scratch paths each has used
  clock,            \* two concurrent runs: Date.now()
  zreq,             \* zoom handler: req.body
  zpc,              \* zoom handler: position
  ztimeline,        \* zoom handler: let timeline
  zi,               \* zoom handler: loop counter (0-based)
  zprocessed,       \* zoom handler: const processedFiles
  zfs,              \* zoom handler: scratch directory
  zlog,             \* zoom handler: per-segment transcoder invocations
  zsettle,          \* zoom handler: resolve / reject calls of the segment promises
  zconcat,          \* zoom handler: concat invocations
  zresponse,        \* zoom handler: what res.json received
  fsize,            \* body receipt: size of the response body, in MB
  fbuffered,        \* body receipt: MB of the body held in memory
  fpc,              \* body receipt: position
  sreq,             \* subtitles handler: req.body
  spc,              \* subtitles handler: position
  scur,             \* subtitles handler: the approach being awaited (1-based)
  slog,             \* subtitles handler: start / end / error / timeout events
  srunning,         \* subtitles handler: approaches timed out, process still alive
  success,          \* subtitles handler: let success
  sresponse         \* subtitles handler: what res.json received

hvars == <<req, pc, timeline, batches, batchIndex, i, processedFiles,
           batchOutputs, finalOutputPath, fs, running, outcomes, fetchLog,
           ffmpegLog, concatCalls, response>>
lvars == <<lreq, lpc, li, localFiles, lconcat, lresponse>>
cvars == <<runs, touched, clock>>
zvars == <<zreq, zpc, ztimeline, zi, zprocessed, zfs, zlog, zsettle, zconcat, zresponse>>
fvars == <<fsize, fbuffered, fpc>>
svars == <<sreq, spc, scur, slog, srunning, success, sresponse>>
vars == <<req, pc, timeline, batches, batchIndex, i, processedFiles,
          batchOutputs, finalOutputPath, fs, running, outcomes, fetchLog,
          ffmpegLog, concatCalls, response,
          lreq, lpc, li, localFiles, lconcat, lresponse,
          runs, touched, clock,
          zreq, zpc, ztimeline, zi, zprocessed, zfs, zlog, zsettle, zconcat, zresponse,
          fsize, fbuffered, fpc,
          sreq, spc, scur, slog, srunning, success, sresponse>>

\* ------------------------------------------------------------ JS helpers
Min(a, b) == IF a < b THEN a ELSE b
Max(a, b) == IF a > b THEN a ELSE b

\* Array.prototype.slice(start, end) on a 1-based sequence, with the
\* JavaScript clamping of negative and oversized indices
JsSlice(s, start, end) ==
  LET len  == Len(s)
      from == IF start < 0 THEN Max(len + start, 0) ELSE Min(start, len)
      to   == IF end < 0 THEN Max(len + end, 0) ELSE Min(end, len)
  IN  IF to <= from THEN <<>>
      ELSE [j \in 1..(to - from) |-> s[from + j]]

\* the batching loop: for (let i = 0; i < timeline.length; i += batchSize)
\*                      batches.push(timeline.slice(i, i + batchSize))
\* (defined for batchSize >= 1, where the loop ends)
RECURSIVE BatchesFrom(_, _, _)
BatchesFrom(s, k, from) ==
  IF from >= Len(s) THEN <<>>
  ELSE <<JsSlice(s, from, from + k)>> \o BatchesFrom(s, k, from + k)

\* mutant of SplitIntoBatches: the loop bound is i + batchSize <= length, so
\* a short last batch is never pushed
SplitIntoBatches_DropShort(s, k) == SelectSeq(BatchesFrom(s, k, 0), LAMBDA b : Len(b) = k)

SplitIntoBatches(s, k) == BatchesFrom(s, k, 0)

\* concatenation of a sequence of sequences, in order
RECURSIVE Flatten(_)
Flatten(ss) == IF ss = <<>> THEN <<>> ELSE Head(ss) \o Flatten(Tail(ss))

\* ----------------------------------------------------------- scratch paths
Path(kind, b, j) == [kind |-> kind, b |-> b, i |-> j]
NoPath == Path("none", -1, -1)
\* `batch${batchIndex}_original${i}.mp4`
originalPath(b, j) == Path("original", b, j)
\* `batch${batchIndex}_processed${i}.mp4`
processedPath(b, j) == Path("processed", b, j)
\* `batch${batchIndex}_concat.txt`
concatPath(b) == Path("concat", b, -1)
\* `batch${batchIndex}_output.mp4`
batchOutputPath(b) == Path("output", b, -1)
\* 'final_concat.txt'
finalConcatPath == Path("final_concat", -1, -1)
\* `final_sequenced_${Date.now()}.mp4`
finalSequencedPath == Path("final_sequenced", -1, -1)

\* a file: the lines of a manifest, or the clips of a media file
File(lines, clips) == [lines |-> lines, clips |-> clips]

\* fs.writeFileSync(p, ...)
WriteFile(f, p, v) == [q \in (DOMAIN f) \cup {p} |-> IF q = p THEN v ELSE f[q]]
\* try { fs.unlinkSync(p) } catch (e) {}
Unlink(f, p) == [q \in (DOMAIN f) \ {p} |-> f[q]]
\* [...].forEach(file => { try { fs.unlinkSync(file) } catch (e) {} })
RECURSIVE UnlinkAll(_, _)
UnlinkAll(f, ps) == IF ps = <<>> THEN f ELSE UnlinkAll(Unlink(f, Head(ps)), Tail(ps))

\* the media a concat-demuxer run writes: the clips of the files its
\* manifest lists, in manifest order (a listed file that does not exist
\* contributes nothing)
RECURSIVE ConcatClips(_, _)
ConcatClips(f, manifest) ==
  IF manifest = <<>> THEN <<>>
  ELSE (IF Head(manifest) \in DOMAIN f THEN f[Head(manifest)].clips ELSE <<>>)
       \o ConcatClips(f, Tail(manifest))

\* ------------------------------------------------------------ request bodies
\* the URL of the k-th entry (k 1-based) of a flat list
UrlOf(k) == k
\* a videoUrls entry: a plain URL string, or an object with mp4_url
UrlEntry(k) == [isObject |-> (k % 2 = 0), value |-> UrlOf(k)]
UrlList(n) == [k \in 1..n |-> UrlEntry(k)]

\* a keyframe of a track: its duration differs from one keyframe to the next
Keyframe(k) == [url |-> 10 + k, timestamp |-> 7 * (k - 1), duration |-> 2 + k]
Keyframes(n) == [k \in 1..n |-> Keyframe(k)]
VideoTrack(n) == [type |-> "video", hasKeyframes |-> TRUE, keyframes |-> Keyframes(n)]
VideoTrackBare == [type |-> "video", hasKeyframes |-> FALSE, keyframes |-> <<>>]
AudioTrack == [type |-> "audio", hasKeyframes |-> TRUE, keyframes |-> Keyframes(1)]

TrackLists ==
  {<<>>, <<AudioTrack>>, <<VideoTrackBare>>, <<VideoTrackBare, VideoTrack(1)>>}
  \cup {<<VideoTrack(n)>> : n \in 0..MaxLen}
  \cup {<<AudioTrack, VideoTrack(n)>> : n \in 1..MaxLen}

\* a request body; has* is FALSE for a field the body does not carry
Body(hasUrls, urls, hasTracks, tracks) ==
  [hasVideoUrls |-> hasUrls, videoUrls |-> urls,
   hasTracks |-> hasTracks, tracks |-> tracks]

Bodies ==
  {Body(TRUE, UrlList(n), FALSE, <<>>) : n \in 0..MaxLen}
  \cup {Body(FALSE, <<>>, TRUE, t) : t \in TrackLists}
  \cup {Body(TRUE, UrlList(1), TRUE, t) :
          t \in {<<>>, <<AudioTrack>>, <<VideoTrackBare>>, <<VideoTrack(2)>>}}
  \cup {Body(FALSE, <<>>, FALSE, <<>>)}

\* req.body with or without a batchSize field
Requests ==
  {[body |-> b, hasBatchSize |-> FALSE, batchSize |-> 0] : b \in Bodies}
  \cup {[body |-> b, hasBatchSize |-> TRUE, batchSize |-> k] :
          b \in Bodies, k \in 1..MaxBatchSize}

\* const { videoUrls, tracks, batchSize = 3 } = req.body
BatchSizeOf(r) == IF r.hasBatchSize THEN r.batchSize ELSE DefaultBatchSize
batchSize == BatchSizeOf(req)

\* tracks.find(track => track.type === 'video'): 0 when there is none
RECURSIVE FindVideo(_, _)
FindVideo(tracks, k) ==
  IF k > Len(tracks) THEN 0
  ELSE IF tracks[k].type = "video" THEN k ELSE FindVideo(tracks, k + 1)

\* mutant of FlatTimeline: offsets counted from 1 (timestamp: (index + 1) * 5)
FlatTimeline_OneBased(videoUrls) ==
  [k \in 1..Len(videoUrls) |->
     [url |-> videoUrls[k].value, timestamp |-> k * 5, duration |-> 5]]

\* videoUrls.map((video, index) => ({url: video.mp4_url || video,
\*                                   timestamp: index * 5, duration: 5}))
FlatTimeline(videoUrls) ==
  [k \in 1..Len(videoUrls) |->
     [url |-> videoUrls[k].value, timestamp |-> (k - 1) * 5, duration |-> 5]]

\* if (tracks && tracks.length > 0)
UsesTracks(b) == b.hasTracks /\ Len(b.tracks) > 0

\* mutant of TimelineOf: when the tracks give no video keyframes the handler
\* falls back to videoUrls
TimelineOf_FallsBack(b) ==
  LET v == FindVideo(b.tracks, 1)
  IN  IF UsesTracks(b) /\ v /= 0 /\ b.tracks[v].hasKeyframes THEN b.tracks[v].keyframes
      ELSE IF b.hasVideoUrls THEN FlatTimeline(b.videoUrls)
      ELSE <<>>

\* the timeline of a request body (lines 281-293)
TimelineOf(b) ==
  IF UsesTracks(b)
  THEN LET v == FindVideo(b.tracks, 1)
       IN  IF v /= 0 /\ b.tracks[v].hasKeyframes THEN b.tracks[v].keyframes ELSE <<>>
  ELSE IF b.hasVideoUrls THEN FlatTimeline(b.videoUrls)
  ELSE <<>>

\* the else branch of lines 294-299
Rejected(b) == ~UsesTracks(b) /\ ~b.hasVideoUrls

\* ------------------------------------------------------------------ responses
NoResponse ==
  [status |-> 0, error |-> "", videoData |-> <<>>, readFrom |-> NoPath,
   sequenced |-> 0, videosAttempted |-> 0, batchesProcessed |-> 0,
   totalBatches |-> 0, totalDuration |-> 0]

ErrorResponse(status, error) == [NoResponse EXCEPT !.status = status, !.error = error]

\* mutant of SuccessResponse: batchesProcessed reports batches.length, the
\* batches attempted, instead of batchOutputs.length
SuccessResponse_AllBatches(data, from, tl, outs, bs) ==
  [status |-> 200, error |-> "", videoData |-> data, readFrom |-> from,
   sequenced |-> Len(tl), videosAttempted |-> Len(tl), batchesProcessed |-> Len(bs),
   totalBatches |-> Len(bs), totalDuration |-> Len(tl) * 5]

\* res.json({success: true, ...}) of lines 492-502; sequenced is the count in
\* message: `Successfully sequenced ${timeline.length} videos (...)`
SuccessResponse(data, from, tl, outs, bs) ==
  [status |-> 200, error |-> "", videoData |-> data, readFrom |-> from,
   sequenced |-> Len(tl), videosAttempted |-> Len(tl), batchesProcessed |-> Len(outs),
   totalBatches |-> Len(bs), totalDuration |-> Len(tl) * 5]

\* --------------------------------------------------------------- the handler
\* the handler at position p with request r and timeline tl, nothing done yet
HandlerInit(r, p, tl) ==
  /\ req = r
  /\ pc = p
  /\ timeline = tl
  /\ batches = <<>>
  /\ batchIndex = 0
  /\ i = 0
  /\ processedFiles = <<>>
  /\ batchOutputs = <<>>
  /\ finalOutputPath = NoPath
  /\ fs = [p0 \in {} |-> File(<<>>, <<>>)]
  /\ running = {}
  /\ outcomes = {}
  /\ fetchLog = <<>>
  /\ ffmpegLog = <<>>
  /\ concatCalls = <<>>
  /\ response = NoResponse

LegacyRequest(method, hasUrls, isArray, urls) ==
  [method |-> method, hasVideoUrls |-> hasUrls, isArray |-> isArray, videoUrls |-> urls]

\* the legacy handler with request r, not yet entered
LegacyInit(r, p) ==
  /\ lreq = r
  /\ lpc = p
  /\ li = 0
  /\ localFiles = <<>>
  /\ lconcat = <<>>
  /\ lresponse = 0

\* a run of the two-run model: timeline length n, batchSize k, position p
Run(n, k, p) ==
  [pc |-> p, n |-> n, k |-> k, batchIndex |-> 0, i |-> 0, clips |-> 0, outs |-> 0]

Runs == {1, 2}

\* two runs r1 and r2, nothing done yet
ConcurrentInit(r1, r2) ==
  /\ runs = [r \in Runs |-> IF r = 1 THEN r1 ELSE r2]
  /\ touched = [r \in Runs |-> {}]
  /\ clock = 0

\* the zoom handler with body b at position p, nothing done yet
ZoomInit(b, p) ==
  /\ zreq = b
  /\ zpc = p
  /\ ztimeline = <<>>
  /\ zi = 0
  /\ zprocessed = <<>>
  /\ zfs = [p0 \in {} |-> File(<<>>, <<>>)]
  /\ zlog = <<>>
  /\ zsettle = <<>>
  /\ zconcat = <<>>
  /\ zresponse = [status |-> 0, error |-> "", videoData |-> <<>>,
                  videosProcessed |-> 0, videosRequested |-> 0, expectedDuration |-> 0]

\* the receipt of a body of `size` MB at position p, nothing received yet
FetchInit(size, p) ==
  /\ fsize = size
  /\ fbuffered = 0
  /\ fpc = p

\* req.body of the subtitles handler: video_url present or not, n subtitles
SubtitlesRequest(hasUrl, hasSubtitles, n) ==
  [hasVideoUrl |-> hasUrl, hasSubtitles |-> hasSubtitles, subtitles |-> n]

SubtitlesResponse(status, rendered) == [status |-> status, subtitlesRendered |-> rendered]

\* the subtitles handler with body r at position p, nothing done yet
SubtitlesInit(r, p) ==
  /\ sreq = r
  /\ spc = p
  /\ scur = 0
  /\ slog = <<>>
  /\ srunning = {}
  /\ success = FALSE
  /\ sresponse = SubtitlesResponse(0, FALSE)

\* no body being received and no subtitles request
FetchIdle == FetchInit(0, "idle")
SubtitlesIdle == SubtitlesInit(SubtitlesRequest(FALSE, FALSE, 0), "idle")

\* no request for the two-run model and the zoom handler
OthersIdle ==
  /\ ConcurrentInit(Run(0, 1, "idle"), Run(0, 1, "idle"))
  /\ ZoomInit(Body(FALSE, <<>>, FALSE, <<>>), "idle")
  /\ FetchIdle
  /\ SubtitlesIdle

Init ==
  /\ \E r \in Requests : HandlerInit(r, "start", <<>>)
  /\ LegacyInit(LegacyRequest("POST", FALSE, FALSE, <<>>), "idle")
  /\ OthersIdle

\* the batch and the segment the loops are at
batch == batches[batchIndex + 1]
segment == batch[i + 1]

\* lines 279-307: destructure the body and build the timeline
BuildTimeline ==
  /\ pc = "start"
  /\ IF Rejected(req.body)
     THEN /\ response' = ErrorResponse(400, "Either videoUrls array or tracks array is required")
          /\ pc' = "done"
          /\ UNCHANGED timeline
     ELSE /\ timeline' = TimelineOf(req.body)
          /\ pc' = "batching"
          /\ UNCHANGED response
  /\ UNCHANGED <<req, batches, batchIndex, i, processedFiles, batchOutputs,
                 finalOutputPath, fs, running, outcomes, fetchLog, ffmpegLog,
                 concatCalls, lvars, cvars, zvars, fvars, svars>>

\* lines 309-317: split the timeline into batches
SplitBatches ==
  /\ pc = "batching"
  /\ batches' = SplitIntoBatches(timeline, batchSize)
  /\ batchOutputs' = <<>>
  /\ batchIndex' = 0
  /\ pc' = "batch_loop"
  /\ UNCHANGED <<req, timeline, i, processedFiles, finalOutputPath, fs, running,
                 outcomes, fetchLog, ffmpegLog, concatCalls, response, lvars, cvars, zvars, fvars, svars>>

\* line 320-324: the test of the batch loop
BatchLoop ==
  /\ pc = "batch_loop"
  /\ IF batchIndex < Len(batches)
     THEN /\ processedFiles' = <<>>
          /\ i' = 0
          /\ pc' = "seg_loop"
     ELSE /\ pc' = "assemble"
          /\ UNCHANGED <<processedFiles, i>>
  /\ UNCHANGED <<req, timeline, batches, batchIndex, batchOutputs, finalOutputPath,
                 fs, running, outcomes, fetchLog, ffmpegLog, concatCalls, response,
                 lvars, cvars, zvars, fvars, svars>>

\* lines 327-339: the test of the segment loop, and the fetch of the segment
SegmentLoop ==
  /\ pc = "seg_loop"
  /\ IF i < Len(batch)
     THEN /\ fetchLog' = Append(fetchLog, [b |-> batchIndex, i |-> i, url |-> segment.url])
          /\ pc' = "fetch"
     ELSE /\ pc' = "batch_end"
          /\ UNCHANGED fetchLog
  /\ UNCHANGED <<req, timeline, batches, batchIndex, i, processedFiles, batchOutputs,
                 finalOutputPath, fs, running, outcomes, ffmpegLog, concatCalls,
                 response, lvars, cvars, zvars, fvars, svars>>

Outcome(b, j, result) == [b |-> b, i |-> j, result |-> result]

\* lines 504-510: the catch of the handler
HandlerCatch(message) ==
  /\ response' = ErrorResponse(500, message)
  /\ pc' = "done"

\* mutant of SegmentCatch: no try/catch around the segment, the error
\* reaches the catch of the handler
SegmentCatch_Throws(result) ==
  /\ outcomes' = outcomes \cup {Outcome(batchIndex, i, result)}
  /\ HandlerCatch(result)
  /\ UNCHANGED <<processedFiles, i>>

\* lines 397-399: catch (error) { console.error(...) }, then the next i
SegmentCatch(result) ==
  /\ outcomes' = outcomes \cup {Outcome(batchIndex, i, result)}
  /\ i' = i + 1
  /\ pc' = "seg_loop"
  /\ UNCHANGED <<processedFiles, response>>

\* line 336: fetch rejects (network error, or the 12 s abort)
FetchFails ==
  /\ pc = "fetch"
  /\ SegmentCatch("fetch_error")
  /\ UNCHANGED <<req, timeline, batches, batchIndex, batchOutputs, finalOutputPath,
                 fs, running, fetchLog, ffmpegLog, concatCalls, lvars, cvars, zvars, fvars, svars>>

\* line 342: if (!response.ok) throw new Error(`HTTP ${response.status}`)
FetchNotOk ==
  /\ pc = "fetch"
  /\ SegmentCatch("http_error")
  /\ UNCHANGED <<req, timeline, batches, batchIndex, batchOutputs, finalOutputPath,
                 fs, running, fetchLog, ffmpegLog, concatCalls, lvars, cvars, zvars, fvars, svars>>

\* mutant of FetchOversize: the size is checked after the body is written
FetchOversize_WritesFirst ==
  /\ pc = "fetch"
  /\ fs' = WriteFile(fs, originalPath(batchIndex, i),
                     File(<<>>, <<[url |-> segment.url, seconds |-> 0]>>))
  /\ outcomes' = outcomes \cup {Outcome(batchIndex, i, "oversize")}
  /\ i' = i + 1
  /\ pc' = "seg_loop"
  /\ UNCHANGED <<req, timeline, batches, batchIndex, processedFiles, batchOutputs,
                 finalOutputPath, running, fetchLog, ffmpegLog, concatCalls,
                 response, lvars, cvars, zvars, fvars, svars>>

\* lines 344-350: the body is larger than 15 MB: continue
FetchOversize ==
  /\ pc = "fetch"
  /\ outcomes' = outcomes \cup {Outcome(batchIndex, i, "oversize")}
  /\ i' = i + 1
  /\ pc' = "seg_loop"
  /\ UNCHANGED <<req, timeline, batches, batchIndex, processedFiles, batchOutputs,
                 finalOutputPath, fs, running, fetchLog, ffmpegLog, concatCalls,
                 response, lvars, cvars, zvars, fvars, svars>>

\* the clip a transcode of file p to `seconds` seconds writes
Transcode(f, p, seconds) == <<[url |-> f[p].clips[1].url, seconds |-> seconds]>>

\* lines 352-386: write the original, start the transcoder on it
FetchOk ==
  /\ pc = "fetch"
  /\ fs' = WriteFile(fs, originalPath(batchIndex, i),
                     File(<<>>, <<[url |-> segment.url, seconds |-> 0]>>))
  /\ ffmpegLog' = Append(ffmpegLog,
                         [b |-> batchIndex, i |-> i,
                          input |-> originalPath(batchIndex, i),
                          output |-> processedPath(batchIndex, i),
                          seconds |-> NormalizeOptions.seconds,
                          options |-> NormalizeOptions])
  /\ pc' = "normalize"
  /\ UNCHANGED <<req, timeline, batches, batchIndex, i, processedFiles, batchOutputs,
                 finalOutputPath, running, outcomes, fetchLog, concatCalls, response,
                 lvars, cvars, zvars, fvars, svars>>

\* mutant of NormalizeEnd: the clip is put at the front of processedFiles
\* (unshift) instead of at the end (push)
NormalizeEnd_Unshift ==
  /\ pc = "normalize"
  /\ processedFiles' = <<processedPath(batchIndex, i)>> \o processedFiles
  /\ fs' = Unlink(WriteFile(fs, processedPath(batchIndex, i),
                            File(<<>>, Transcode(fs, originalPath(batchIndex, i), ClipSeconds))),
                  originalPath(batchIndex, i))
  /\ outcomes' = outcomes \cup {Outcome(batchIndex, i, "ok")}
  /\ pc' = "pause"
  /\ UNCHANGED <<req, timeline, batches, batchIndex, i, batchOutputs, finalOutputPath,
                 running, fetchLog, ffmpegLog, concatCalls, response, lvars, cvars, zvars, fvars, svars>>

\* lines 377-381 and 389-392: 'end', push the clip, unlink the original
NormalizeEnd ==
  /\ pc = "normalize"
  /\ processedFiles' = Append(processedFiles, processedPath(batchIndex, i))
  /\ fs' = Unlink(WriteFile(fs, processedPath(batchIndex, i),
                            File(<<>>, Transcode(fs, originalPath(batchIndex, i), ClipSeconds))),
                  originalPath(batchIndex, i))
  /\ outcomes' = outcomes \cup {Outcome(batchIndex, i, "ok")}
  /\ pc' = "pause"
  /\ UNCHANGED <<req, timeline, batches, batchIndex, i, batchOutputs, finalOutputPath,
                 running, fetchLog, ffmpegLog, concatCalls, response, lvars, cvars, zvars, fvars, svars>>

\* lines 382-385: 'error' rejects the promise; the catch of line 397
NormalizeError ==
  /\ pc = "normalize"
  /\ SegmentCatch("ffmpeg_error")
  /\ UNCHANGED <<req, timeline, batches, batchIndex, batchOutputs, finalOutputPath,
                 fs, running, fetchLog, ffmpegLog, concatCalls, lvars, cvars, zvars, fvars, svars>>

\* lines 360-362: the 20 s timer rejects the promise; the process runs on
NormalizeTimeout ==
  /\ pc = "normalize"
  /\ running' = running \cup {[b |-> batchIndex, i |-> i]}
  /\ SegmentCatch("timeout")
  /\ UNCHANGED <<req, timeline, batches, batchIndex, batchOutputs, finalOutputPath,
                 fs, fetchLog, ffmpegLog, concatCalls, lvars, cvars, zvars, fvars, svars>>

\* line 395: the 300 ms pause after a processed segment
SegmentPause ==
  /\ pc = "pause"
  /\ i' = i + 1
  /\ pc' = "seg_loop"
  /\ UNCHANGED <<req, timeline, batches, batchIndex, processedFiles, batchOutputs,
                 finalOutputPath, fs, running, outcomes, fetchLog, ffmpegLog,
                 concatCalls, response, lvars, cvars, zvars, fvars, svars>>

\* mutant of LateEnd: the clip of a transcoder that ends after its timeout is
\* still pushed to processedFiles when its batch is the current one
LateEnd_Pushes ==
  /\ pc /= "done"
  /\ \E r \in running :
       /\ running' = running \ {r}
       /\ fs' = IF originalPath(r.b, r.i) \in DOMAIN fs
                THEN WriteFile(fs, processedPath(r.b, r.i),
                               File(<<>>, Transcode(fs, originalPath(r.b, r.i), ClipSeconds)))
                ELSE fs
       /\ processedFiles' = IF r.b = batchIndex /\ pc \in {"seg_loop", "fetch", "normalize", "pause", "batch_end"}
                            THEN Append(processedFiles, processedPath(r.b, r.i))
                            ELSE processedFiles
  /\ UNCHANGED <<req, pc, timeline, batches, batchIndex, i,
                 batchOutputs, finalOutputPath, outcomes, fetchLog, ffmpegLog,
                 concatCalls, response, lvars, cvars, zvars, fvars, svars>>

\* a transcoder whose promise already timed out emits 'end': resolve() and
\* clearTimeout() do nothing any more, the file it wrote stays
LateEnd ==
  /\ pc /= "done"
  /\ \E r \in running :
       /\ running' = running \ {r}
       /\ fs' = IF originalPath(r.b, r.i) \in DOMAIN fs
                THEN WriteFile(fs, processedPath(r.b, r.i),
                               File(<<>>, Transcode(fs, originalPath(r.b, r.i), ClipSeconds)))
                ELSE fs
  /\ UNCHANGED <<req, pc, timeline, batches, batchIndex, i, processedFiles,
                 batchOutputs, finalOutputPath, outcomes, fetchLog, ffmpegLog,
                 concatCalls, response, lvars, cvars, zvars, fvars, svars>>

\* a transcoder whose promise already timed out emits 'error'
LateError ==
  /\ pc /= "done"
  /\ \E r \in running : running' = running \ {r}
  /\ UNCHANGED <<req, pc, timeline, batches, batchIndex, i, processedFiles,
                 batchOutputs, finalOutputPath, fs, outcomes, fetchLog, ffmpegLog,
                 concatCalls, response, lvars, cvars, zvars, fvars, svars>>

\* processedFiles.map(file => `file '${file}'`).join('\n')
ManifestLines(files) == [k \in 1..Len(files) |-> [directive |-> "file", path |-> files[k]]]
\* the paths the concat demuxer reads from a manifest file
ManifestPaths(lines) == [k \in 1..Len(lines) |-> lines[k].path]

ConcatCall(level, b, manifest, output) ==
  [level |-> level, b |-> b, manifest |-> manifest, output |-> output]

\* mutant of BatchEmpty: an empty batch ends the run instead of `continue`
BatchEmpty_Stops ==
  /\ pc = "batch_end"
  /\ Len(processedFiles) = 0
  /\ response' = ErrorResponse(400, "No videos processed successfully in any batch")
  /\ pc' = "done"
  /\ UNCHANGED <<req, timeline, batches, batchIndex, i, processedFiles, batchOutputs,
                 finalOutputPath, fs, running, outcomes, fetchLog, ffmpegLog,
                 concatCalls, lvars, cvars, zvars, fvars, svars>>

\* lines 402-405: no clip in the batch: continue with the next batch
BatchEmpty ==
  /\ pc = "batch_end"
  /\ Len(processedFiles) = 0
  /\ batchIndex' = batchIndex + 1
  /\ pc' = "batch_loop"
  /\ UNCHANGED <<req, timeline, batches, i, processedFiles, batchOutputs,
                 finalOutputPath, fs, running, outcomes, fetchLog, ffmpegLog,
                 concatCalls, response, lvars, cvars, zvars, fvars, svars>>

\* mutant of BatchConcatStart: the concat promise is not awaited, the loop
\* goes on to the next batch while the concat runs
BatchConcatStart_NotAwaited ==
  /\ pc = "batch_end"
  /\ Len(processedFiles) /= 0
  /\ fs' = WriteFile(fs, concatPath(batchIndex), File(ManifestLines(processedFiles), <<>>))
  /\ concatCalls' = Append(concatCalls,
                           ConcatCall("batch", batchIndex, processedFiles,
                                      batchOutputPath(batchIndex)))
  /\ pc' = "batch_pause"
  /\ UNCHANGED <<req, timeline, batches, batchIndex, i, processedFiles, batchOutputs,
                 finalOutputPath, running, outcomes, fetchLog, ffmpegLog, response,
                 lvars, cvars, zvars, fvars, svars>>

\* lines 407-425: write the batch manifest and start the concat
BatchConcatStart ==
  /\ pc = "batch_end"
  /\ Len(processedFiles) /= 0
  /\ fs' = WriteFile(fs, concatPath(batchIndex), File(ManifestLines(processedFiles), <<>>))
  /\ concatCalls' = Append(concatCalls,
                           ConcatCall("batch", batchIndex, processedFiles,
                                      batchOutputPath(batchIndex)))
  /\ pc' = "batch_concat"
  /\ UNCHANGED <<req, timeline, batches, batchIndex, i, processedFiles, batchOutputs,
                 finalOutputPath, running, outcomes, fetchLog, ffmpegLog, response,
                 lvars, cvars, zvars, fvars, svars>>

\* the file a concat run writes from the manifest file m
ConcatOutput(f, m) == File(<<>>, ConcatClips(f, ManifestPaths(f[m].lines)))

\* mutant of BatchConcatEnd: the batch output is put at the front of
\* batchOutputs (unshift) instead of at the end (push)
BatchConcatEnd_Unshift ==
  /\ pc = "batch_concat"
  /\ batchOutputs' = <<batchOutputPath(batchIndex)>> \o batchOutputs
  /\ fs' = UnlinkAll(WriteFile(fs, batchOutputPath(batchIndex),
                               ConcatOutput(fs, concatPath(batchIndex))),
                     processedFiles \o <<concatPath(batchIndex)>>)
  /\ pc' = "batch_pause"
  /\ UNCHANGED <<req, timeline, batches, batchIndex, i, processedFiles,
                 finalOutputPath, running, outcomes, fetchLog, ffmpegLog, concatCalls,
                 response, lvars, cvars, zvars, fvars, svars>>

\* lines 422 and 427-433: 'end', push the batch output, unlink clips and manifest
BatchConcatEnd ==
  /\ pc = "batch_concat"
  /\ batchOutputs' = Append(batchOutputs, batchOutputPath(batchIndex))
  /\ fs' = UnlinkAll(WriteFile(fs, batchOutputPath(batchIndex),
                               ConcatOutput(fs, concatPath(batchIndex))),
                     processedFiles \o <<concatPath(batchIndex)>>)
  /\ pc' = "batch_pause"
  /\ UNCHANGED <<req, timeline, batches, batchIndex, i, processedFiles,
                 finalOutputPath, running, outcomes, fetchLog, ffmpegLog, concatCalls,
                 response, lvars, cvars, zvars, fvars, svars>>

\* line 423: 'error' rejects; nothing catches it before the handler's catch
BatchConcatError ==
  /\ pc = "batch_concat"
  /\ HandlerCatch("batch concat failed")
  /\ UNCHANGED <<req, timeline, batches, batchIndex, i, processedFiles, batchOutputs,
                 finalOutputPath, fs, running, outcomes, fetchLog, ffmpegLog,
                 concatCalls, lvars, cvars, zvars, fvars, svars>>

\* line 436: the 1 s pause after a batch
BatchPause ==
  /\ pc = "batch_pause"
  /\ batchIndex' = batchIndex + 1
  /\ pc' = "batch_loop"
  /\ UNCHANGED <<req, timeline, batches, i, processedFiles, batchOutputs,
                 finalOutputPath, fs, running, outcomes, fetchLog, ffmpegLog,
                 concatCalls, response, lvars, cvars, zvars, fvars, svars>>

\* the final merge of lines 452-472 started on the current batchOutputs
StartFinalConcat ==
  /\ fs' = WriteFile(fs, finalConcatPath, File(ManifestLines(batchOutputs), <<>>))
  /\ finalOutputPath' = finalSequencedPath
  /\ concatCalls' = Append(concatCalls,
                           ConcatCall("final", -1, batchOutputs, finalSequencedPath))
  /\ pc' = "final_concat"
  /\ UNCHANGED <<req, timeline, batches, batchIndex, i, processedFiles, batchOutputs,
                 running, outcomes, fetchLog, ffmpegLog, response, lvars, cvars, zvars, fvars, svars>>

\* mutant of NoOutputs: the zero-output guard is missing, the merge starts
NoOutputs_Merges ==
  /\ pc = "assemble"
  /\ Len(batchOutputs) = 0
  /\ StartFinalConcat

\* mutant of SingleOutput: one batch output is merged like several
SingleOutput_Merges ==
  /\ pc = "assemble"
  /\ Len(batchOutputs) = 1
  /\ StartFinalConcat

\* mutant of NoOutputs: the 400 is sent without `return`, the handler goes on
\* to read the result
NoOutputs_NoReturn ==
  /\ pc = "assemble"
  /\ Len(batchOutputs) = 0
  /\ response' = ErrorResponse(400, "No videos processed successfully in any batch")
  /\ pc' = "respond"
  /\ UNCHANGED <<req, timeline, batches, batchIndex, i, processedFiles, batchOutputs,
                 finalOutputPath, fs, running, outcomes, fetchLog, ffmpegLog,
                 concatCalls, lvars, cvars, zvars, fvars, svars>>

\* lines 439-444: no batch output at all
NoOutputs ==
  /\ pc = "assemble"
  /\ Len(batchOutputs) = 0
  /\ response' = ErrorResponse(400, "No videos processed successfully in any batch")
  /\ pc' = "done"
  /\ UNCHANGED <<req, timeline, batches, batchIndex, i, processedFiles, batchOutputs,
                 finalOutputPath, fs, running, outcomes, fetchLog, ffmpegLog,
                 concatCalls, lvars, cvars, zvars, fvars, svars>>

\* lines 448-451: one batch output: use it directly
SingleOutput ==
  /\ pc = "assemble"
  /\ Len(batchOutputs) = 1
  /\ finalOutputPath' = batchOutputs[1]
  /\ pc' = "respond"
  /\ UNCHANGED <<req, timeline, batches, batchIndex, i, processedFiles, batchOutputs,
                 fs, running, outcomes, fetchLog, ffmpegLog, concatCalls, response,
                 lvars, cvars, zvars, fvars, svars>>

\* lines 452-472: write the final manifest and start the final concat
MergeStart ==
  /\ pc = "assemble"
  /\ Len(batchOutputs) > 1
  /\ StartFinalConcat

\* lines 469 and 474-475: 'end', unlink the final manifest
FinalConcatEnd ==
  /\ pc = "final_concat"
  /\ fs' = Unlink(WriteFile(fs, finalOutputPath, ConcatOutput(fs, finalConcatPath)),
                  finalConcatPath)
  /\ pc' = "respond"
  /\ UNCHANGED <<req, timeline, batches, batchIndex, i, processedFiles, batchOutputs,
                 finalOutputPath, running, outcomes, fetchLog, ffmpegLog, concatCalls,
                 response, lvars, cvars, zvars, fvars, svars>>

\* line 470: 'error' rejects; the handler's catch answers
FinalConcatError ==
  /\ pc = "final_concat"
  /\ HandlerCatch("final concat failed")
  /\ UNCHANGED <<req, timeline, batches, batchIndex, i, processedFiles, batchOutputs,
                 finalOutputPath, fs, running, outcomes, fetchLog, ffmpegLog,
                 concatCalls, lvars, cvars, zvars, fvars, svars>>

\* mutant of Respond: the batch outputs and the final file are not unlinked
Respond_KeepsFiles ==
  /\ pc = "respond"
  /\ IF finalOutputPath \in DOMAIN fs
     THEN response' = SuccessResponse(fs[finalOutputPath].clips, finalOutputPath,
                                      timeline, batchOutputs, batches)
     ELSE response' = ErrorResponse(500, "ENOENT")
  /\ pc' = "done"
  /\ UNCHANGED <<req, timeline, batches, batchIndex, i, processedFiles, batchOutputs,
                 finalOutputPath, fs, running, outcomes, fetchLog, ffmpegLog, concatCalls,
                 lvars, cvars, zvars, fvars, svars>>

\* lines 478-502: read the result, unlink batch outputs and final output, answer
Respond ==
  /\ pc = "respond"
  /\ IF finalOutputPath \in DOMAIN fs
     THEN /\ response' = SuccessResponse(fs[finalOutputPath].clips, finalOutputPath,
                                         timeline, batchOutputs, batches)
          /\ fs' = UnlinkAll(fs, batchOutputs \o <<finalOutputPath>>)
     ELSE /\ response' = ErrorResponse(500, "ENOENT")
          /\ UNCHANGED fs
  /\ pc' = "done"
  /\ UNCHANGED <<req, timeline, batches, batchIndex, i, processedFiles, batchOutputs,
                 finalOutputPath, running, outcomes, fetchLog, ffmpegLog, concatCalls,
                 lvars, cvars, zvars, fvars, svars>>

Next ==
  \/ BuildTimeline
  \/ SplitBatches
  \/ BatchLoop
  \/ SegmentLoop
  \/ FetchFails
  \/ FetchNotOk
  \/ FetchOversize
  \/ FetchOk
  \/ NormalizeEnd
  \/ NormalizeError
  \/ NormalizeTimeout
  \/ SegmentPause
  \/ LateEnd
  \/ LateError
  \/ BatchEmpty
  \/ BatchConcatStart
  \/ BatchConcatEnd
  \/ BatchConcatError
  \/ BatchPause
  \/ NoOutputs
  \/ SingleOutput
  \/ MergeStart
  \/ FinalConcatEnd
  \/ FinalConcatError
  \/ Respond

Spec == Init /\ [][Next]_vars

\* ------------------------------------------------- the batching loop alone
\* timelines over two distinct segments, repetitions included
BatchingSegments == {Keyframe(1), Keyframe(2)}
RECURSIVE SeqsUpTo(_, _)
SeqsUpTo(S, n) ==
  IF n = 0 THEN {<<>>}
  ELSE LET shorter == SeqsUpTo(S, n - 1)
       IN  shorter \cup {Append(t, x) : t \in {u \in shorter : Len(u) = n - 1}, x \in S}

InitBatching ==
  /\ \E tl \in SeqsUpTo(BatchingSegments, MaxTimeline), k \in 1..MaxSplit :
       HandlerInit([body |-> Body(FALSE, <<>>, FALSE, <<>>),
                    hasBatchSize |-> TRUE, batchSize |-> k], "batching", tl)
  /\ LegacyInit(LegacyRequest("POST", FALSE, FALSE, <<>>), "idle")
  /\ OthersIdle

NextBatching == SplitBatches

SpecBatching == InitBatching /\ [][NextBatching]_vars

\* ---------------------------------- the legacy handler (src/unnamed/part_004)
LegacyEntries == {[isObject |-> FALSE, value |-> 1], [isObject |-> TRUE, value |-> 2]}

LegacyRequests ==
  {LegacyRequest("OPTIONS", FALSE, FALSE, <<>>), LegacyRequest("GET", FALSE, FALSE, <<>>),
   LegacyRequest("POST", FALSE, FALSE, <<>>), LegacyRequest("POST", TRUE, FALSE, <<>>)}
  \cup {LegacyRequest("POST", TRUE, TRUE, u) : u \in SeqsUpTo(LegacyEntries, MaxLegacyUrls)}

InitLegacy ==
  /\ HandlerInit([body |-> Body(FALSE, <<>>, FALSE, <<>>),
                  hasBatchSize |-> FALSE, batchSize |-> 0], "idle", <<>>)
  /\ \E r \in LegacyRequests : LegacyInit(r, "start")
  /\ OthersIdle

\* const limitedUrls = videoUrls.slice(0, 3)
limitedUrls == JsSlice(lreq.videoUrls, 0, LegacyLimit)

\* lines 10-29: method and body checks
LegacyEnter ==
  /\ lpc = "start"
  /\ IF lreq.method = "OPTIONS" THEN lresponse' = 200 /\ lpc' = "done"
     ELSE IF lreq.method /= "POST" THEN lresponse' = 405 /\ lpc' = "done"
     ELSE IF ~lreq.hasVideoUrls \/ ~lreq.isArray THEN lresponse' = 400 /\ lpc' = "done"
     ELSE lresponse' = lresponse /\ lpc' = "download_loop"
  /\ UNCHANGED <<lreq, li, localFiles, lconcat, hvars, cvars, zvars, fvars, svars>>

\* lines 30-33 and 44-61: fetch the next URL, or write the manifest of the
\* downloaded files and start the concat
LegacyLoop ==
  /\ lpc = "download_loop"
  /\ IF li < Len(limitedUrls)
     THEN /\ lpc' = "fetch"
          /\ UNCHANGED lconcat
     ELSE /\ lconcat' = Append(lconcat, ManifestPaths(ManifestLines(localFiles)))
          /\ lpc' = "concat"
  /\ UNCHANGED <<lreq, li, localFiles, lresponse, hvars, cvars, zvars, fvars, svars>>

\* line 33 rejects, or line 35 throws: the catch of lines 81-87
LegacyFetchFails ==
  /\ lpc = "fetch"
  /\ lresponse' = 500
  /\ lpc' = "done"
  /\ UNCHANGED <<lreq, li, localFiles, lconcat, hvars, cvars, zvars, fvars, svars>>

\* lines 38-41: write /tmp/video${i}.mp4 and push it
LegacyFetchOk ==
  /\ lpc = "fetch"
  /\ localFiles' = Append(localFiles, Path("video", -1, li))
  /\ li' = li + 1
  /\ lpc' = "download_loop"
  /\ UNCHANGED <<lreq, lconcat, lresponse, hvars, cvars, zvars, fvars, svars>>

\* lines 58 and 63-79: 'end': read the output, clean up, answer
LegacyConcatEnd ==
  /\ lpc = "concat"
  /\ lresponse' = 200
  /\ lpc' = "done"
  /\ UNCHANGED <<lreq, li, localFiles, lconcat, hvars, cvars, zvars, fvars, svars>>

\* line 59: 'error' rejects: the catch of lines 81-87
LegacyConcatError ==
  /\ lpc = "concat"
  /\ lresponse' = 500
  /\ lpc' = "done"
  /\ UNCHANGED <<lreq, li, localFiles, lconcat, hvars, cvars, zvars, fvars, svars>>

NextLegacy ==
  \/ LegacyEnter
  \/ LegacyLoop
  \/ LegacyFetchFails
  \/ LegacyFetchOk
  \/ LegacyConcatEnd
  \/ LegacyConcatError

SpecLegacy == InitLegacy /\ [][NextLegacy]_vars

\* ------------- the zoom handler v2.5.2 (src/unnamed/part_003, lines 721-941)
\* timeline.slice(0, 6)
ZoomLimit == 6

\* `original${i}.mp4`
zoomOriginalPath(j) == Path("zoom_original", -1, j)
\* `processed${i}.mp4`
zoomProcessedPath(j) == Path("zoom_processed", -1, j)
\* 'concat.txt'
zoomConcatPath == Path("zoom_concat", -1, -1)
\* `output_${Date.now()}.mp4`
zoomOutputPath == Path("zoom_output", -1, -1)

\* the first attempt of the zoom handler: scale, zoompan, scale, crop
ZoomOptions == Options(ClipSeconds, "fast", 28, 720, 1280, TRUE, 24, "yuv420p")

\* a retry that changes the encoding as well as dropping the effect
FallbackOptions_Degraded == Options(ClipSeconds, "ultrafast", 30, 640, 1138, FALSE, 20, "input")

\* the retry inside the 'error' callback: no zoom, just resize
FallbackOptions == Options(ClipSeconds, "fast", 28, 720, 1280, FALSE, 24, "input")

\* what stream-copy concat needs to agree between its inputs
TargetSpec(o) ==
  [width |-> o.width, height |-> o.height, frameRate |-> o.frameRate,
   videoCodec |-> o.videoCodec, audioCodec |-> o.audioCodec, quality |-> o.crf]

ZoomTimelineOf(b) ==
  IF UsesTracks(b)
  THEN (IF b.tracks[1].hasKeyframes THEN b.tracks[1].keyframes ELSE <<>>)
  ELSE IF b.hasVideoUrls THEN FlatTimeline(b.videoUrls)
  ELSE <<>>

ZoomResponse(status, error, clips, processed, requested) ==
  [status |-> status, error |-> error, videoData |-> clips,
   videosProcessed |-> processed, videosRequested |-> requested,
   expectedDuration |-> processed * ClipSeconds]

zsegment == ztimeline[zi + 1]

InitZoom ==
  /\ HandlerInit([body |-> Body(FALSE, <<>>, FALSE, <<>>),
                  hasBatchSize |-> FALSE, batchSize |-> 0], "idle", <<>>)
  /\ LegacyInit(LegacyRequest("POST", FALSE, FALSE, <<>>), "idle")
  /\ ConcurrentInit(Run(0, 1, "idle"), Run(0, 1, "idle"))
  /\ \E b \in Bodies : ZoomInit(b, "start")
  /\ FetchIdle
  /\ SubtitlesIdle

\* lines 726-756: the timeline, capped at six entries
ZoomBuildTimeline ==
  /\ zpc = "start"
  /\ IF Rejected(zreq)
     THEN /\ zresponse' = ZoomResponse(400, "Either videoUrls array or tracks array is required",
                                       <<>>, 0, 0)
          /\ zpc' = "done"
          /\ UNCHANGED ztimeline
     ELSE /\ ztimeline' = IF Len(ZoomTimelineOf(zreq)) > ZoomLimit
                          THEN JsSlice(ZoomTimelineOf(zreq), 0, ZoomLimit)
                          ELSE ZoomTimelineOf(zreq)
          /\ zpc' = "seg_loop"
          /\ UNCHANGED zresponse
  /\ UNCHANGED <<zreq, zi, zprocessed, zfs, zlog, zsettle, zconcat, hvars, lvars, cvars, fvars, svars>>

\* lines 760-765 and 851-900: next segment, or the clip count check and the concat
ZoomSegmentLoop ==
  /\ zpc = "seg_loop"
  /\ IF zi < Len(ztimeline)
     THEN /\ zpc' = "fetch"
          /\ UNCHANGED <<zfs, zconcat, zresponse>>
     ELSE IF Len(zprocessed) = 0
     THEN /\ zresponse' = ZoomResponse(400, "No videos processed successfully",
                                       <<>>, 0, 0)
          /\ zpc' = "done"
          /\ UNCHANGED <<zfs, zconcat>>
     ELSE /\ zfs' = WriteFile(zfs, zoomConcatPath, File(zprocessed, <<>>))
          /\ zconcat' = Append(zconcat,
                               [manifest |-> zprocessed, output |-> zoomOutputPath,
                                clips |-> ConcatClips(zfs, zprocessed)])
          /\ zpc' = "concat"
          /\ UNCHANGED zresponse
  /\ UNCHANGED <<zreq, ztimeline, zi, zprocessed, zlog, zsettle, hvars, lvars, cvars, fvars, svars>>

\* lines 765-766 and 845-848: the fetch rejects, times out or is not ok
ZoomFetchFails ==
  /\ zpc = "fetch"
  /\ zi' = zi + 1
  /\ zpc' = "seg_loop"
  /\ UNCHANGED <<zreq, ztimeline, zprocessed, zfs, zlog, zsettle, zconcat, zresponse,
                 hvars, lvars, cvars, fvars, svars>>

\* lines 768-795 and 837: the original is written and the zoom transcode starts
ZoomFetchOk ==
  /\ zpc = "fetch"
  /\ zfs' = WriteFile(zfs, zoomOriginalPath(zi),
                      File(<<>>, <<[url |-> zsegment.url, seconds |-> 0,
                                    options |-> ZoomOptions]>>))
  /\ zlog' = Append(zlog, [i |-> zi, input |-> zoomOriginalPath(zi),
                           output |-> zoomProcessedPath(zi), options |-> ZoomOptions])
  /\ zpc' = "primary"
  /\ UNCHANGED <<zreq, ztimeline, zi, zprocessed, zsettle, zconcat, zresponse,
                 hvars, lvars, cvars, fvars, svars>>

\* resolve() and lines 840-843: the clip is kept and the original deleted
ZoomResolve(options) ==
  /\ zfs' = Unlink(WriteFile(zfs, zoomProcessedPath(zi),
                             File(<<>>, <<[url |-> zfs[zoomOriginalPath(zi)].clips[1].url,
                                           seconds |-> options.seconds,
                                           options |-> options]>>)),
                   zoomOriginalPath(zi))
  /\ zsettle' = Append(zsettle, [i |-> zi, call |-> "resolve"])
  /\ zprocessed' = Append(zprocessed, zoomProcessedPath(zi))
  /\ zi' = zi + 1
  /\ zpc' = "seg_loop"

\* lines 804-807: the zoom transcode ends
ZoomPrimaryEnd ==
  /\ zpc = "primary"
  /\ ZoomResolve(ZoomOptions)
  /\ UNCHANGED <<zreq, ztimeline, zlog, zconcat, zresponse, hvars, lvars, cvars, fvars, svars>>

\* mutant of ZoomPrimaryError: no retry, 'error' rejects the promise at once
ZoomPrimaryError_NoRetry ==
  /\ zpc = "primary"
  /\ zsettle' = Append(zsettle, [i |-> zi, call |-> "reject"])
  /\ zi' = zi + 1
  /\ zpc' = "seg_loop"
  /\ UNCHANGED <<zreq, ztimeline, zprocessed, zfs, zlog, zconcat, zresponse,
                 hvars, lvars, cvars, fvars, svars>>

\* lines 808-835: the zoom transcode fails and the retry starts on the same paths
ZoomPrimaryError ==
  /\ zpc = "primary"
  /\ zlog' = Append(zlog, [i |-> zi, input |-> zoomOriginalPath(zi),
                           output |-> zoomProcessedPath(zi), options |-> FallbackOptions])
  /\ zpc' = "fallback"
  /\ UNCHANGED <<zreq, ztimeline, zi, zprocessed, zfs, zsettle, zconcat, zresponse,
                 hvars, lvars, cvars, fvars, svars>>

\* lines 827-830: the retry ends
ZoomFallbackEnd ==
  /\ zpc = "fallback"
  /\ ZoomResolve(FallbackOptions)
  /\ UNCHANGED <<zreq, ztimeline, zlog, zconcat, zresponse, hvars, lvars, cvars, fvars, svars>>

\* lines 831-834 and 845-848: the retry fails, the segment is dropped
ZoomFallbackError ==
  /\ zpc = "fallback"
  /\ zsettle' = Append(zsettle, [i |-> zi, call |-> "reject"])
  /\ zi' = zi + 1
  /\ zpc' = "seg_loop"
  /\ UNCHANGED <<zreq, ztimeline, zprocessed, zfs, zlog, zconcat, zresponse,
                 hvars, lvars, cvars, fvars, svars>>

\* lines 886-889 and 902-932: the output is read, scratch deleted, 200 sent
ZoomConcatEnd ==
  /\ zpc = "concat"
  /\ zfs' = UnlinkAll(zfs, zprocessed \o <<zoomConcatPath>>)
  /\ zresponse' = ZoomResponse(200, "", zconcat[Len(zconcat)].clips,
                               Len(zprocessed), Len(ztimeline))
  /\ zpc' = "done"
  /\ UNCHANGED <<zreq, ztimeline, zi, zprocessed, zlog, zsettle, zconcat,
                 hvars, lvars, cvars, fvars, svars>>

\* lines 934-940: the handler's catch
ZoomCatch(message) ==
  /\ zresponse' = ZoomResponse(500, message, <<>>, 0, 0)
  /\ zpc' = "done"

\* lines 890-893: the concat fails
ZoomConcatError ==
  /\ zpc = "concat"
  /\ ZoomCatch("Concatenation failed")
  /\ UNCHANGED <<zreq, ztimeline, zi, zprocessed, zfs, zlog, zsettle, zconcat,
                 hvars, lvars, cvars, fvars, svars>>

\* lines 896-899: the five minute timer rejects first
ZoomConcatTimeout ==
  /\ zpc = "concat"
  /\ ZoomCatch("Concatenation timeout")
  /\ UNCHANGED <<zreq, ztimeline, zi, zprocessed, zfs, zlog, zsettle, zconcat,
                 hvars, lvars, cvars, fvars, svars>>

NextZoom ==
  \/ ZoomBuildTimeline
  \/ ZoomSegmentLoop
  \/ ZoomFetchFails
  \/ ZoomFetchOk
  \/ ZoomPrimaryEnd
  \/ ZoomPrimaryError
  \/ ZoomFallbackEnd
  \/ ZoomFallbackError
  \/ ZoomConcatEnd
  \/ ZoomConcatError
  \/ ZoomConcatTimeout

SpecZoom == InitZoom /\ [][NextZoom]_vars

\* ------ two concurrent runs of the batch handler (src/server.js, lines 274-511)
\* `final_sequenced_${Date.now()}.mp4` written at time t
finalSequencedAt(t) == Path("final_sequenced", -1, t)

\* const batches of run u
RunBatches(u) == SplitIntoBatches(FlatTimeline(UrlList(u.n)), u.k)

\* lines 439-476: no output, one output, or the final concat
RunAssemble(u) ==
  IF u.outs <= 1 THEN [u EXCEPT !.pc = "done"] ELSE [u EXCEPT !.pc = "final_concat"]

\* line 316: the batch loop condition
RunBatchLoop(u) ==
  IF u.batchIndex < Len(RunBatches(u)) THEN [u EXCEPT !.pc = "fetch"] ELSE RunAssemble(u)

\* lines 427-436: on to the next batch
RunNextBatch(u) ==
  RunBatchLoop([u EXCEPT !.batchIndex = @ + 1, !.i = 0, !.clips = 0])

\* lines 327 and 402-414: next segment, or the end of the batch
RunNextSegment(u) ==
  IF u.i + 1 < Len(RunBatches(u)[u.batchIndex + 1])
  THEN [u EXCEPT !.i = @ + 1, !.pc = "fetch"]
  ELSE IF u.clips = 0 THEN RunNextBatch(u)
  ELSE [u EXCEPT !.pc = "batch_concat"]

\* the scratch paths a run uses on arriving at its position, at time t
RunPaths(u, t) ==
  CASE u.pc = "normalize" ->
         {originalPath(u.batchIndex, u.i), processedPath(u.batchIndex, u.i)}
    [] u.pc = "batch_concat" ->
         {concatPath(u.batchIndex), batchOutputPath(u.batchIndex)}
    [] u.pc = "final_concat" -> {finalConcatPath, finalSequencedAt(t)}
    [] OTHER -> {}

\* run r moves to v
RunStep(r, v) ==
  /\ runs' = [runs EXCEPT ![r] = v]
  /\ touched' = [touched EXCEPT ![r] = @ \cup RunPaths(v, clock)]
  /\ UNCHANGED <<clock, hvars, lvars, zvars, fvars, svars>>

InitConcurrent ==
  /\ HandlerInit([body |-> Body(FALSE, <<>>, FALSE, <<>>),
                  hasBatchSize |-> FALSE, batchSize |-> 0], "idle", <<>>)
  /\ LegacyInit(LegacyRequest("POST", FALSE, FALSE, <<>>), "idle")
  /\ ZoomInit(Body(FALSE, <<>>, FALSE, <<>>), "idle")
  /\ \E n1, n2 \in 0..MaxRunLen : \E k1, k2 \in 1..MaxBatchSize :
       ConcurrentInit(Run(n1, k1, "start"), Run(n2, k2, "start"))
  /\ FetchIdle
  /\ SubtitlesIdle

\* lines 274-316
RunEnter(r) ==
  /\ runs[r].pc = "start"
  /\ RunStep(r, RunBatchLoop(runs[r]))

\* lines 336-350 and 397-399
RunFetchFails(r) ==
  /\ runs[r].pc = "fetch"
  /\ RunStep(r, RunNextSegment(runs[r]))

\* lines 352-387
RunFetchOk(r) ==
  /\ runs[r].pc = "fetch"
  /\ RunStep(r, [runs[r] EXCEPT !.pc = "normalize"])

\* lines 380-383 and 389-395
RunNormalizeEnd(r) ==
  /\ runs[r].pc = "normalize"
  /\ RunStep(r, RunNextSegment([runs[r] EXCEPT !.clips = @ + 1]))

\* lines 360-362, 384-387 and 397-399
RunNormalizeFails(r) ==
  /\ runs[r].pc = "normalize"
  /\ RunStep(r, RunNextSegment(runs[r]))

\* lines 422 and 427-436
RunBatchConcatEnd(r) ==
  /\ runs[r].pc = "batch_concat"
  /\ RunStep(r, RunNextBatch([runs[r] EXCEPT !.outs = @ + 1]))

\* lines 423 and 504-510
RunBatchConcatError(r) ==
  /\ runs[r].pc = "batch_concat"
  /\ RunStep(r, [runs[r] EXCEPT !.pc = "done"])

\* lines 469-470 and 478-510
RunFinalConcatSettles(r) ==
  /\ runs[r].pc = "final_concat"
  /\ RunStep(r, [runs[r] EXCEPT !.pc = "done"])

\* Date.now() advances
Tick ==
  /\ clock < MaxClock
  /\ clock' = clock + 1
  /\ UNCHANGED <<runs, touched, hvars, lvars, zvars, fvars, svars>>

NextConcurrent ==
  \/ \E r \in Runs :
       \/ RunEnter(r)
       \/ RunFetchFails(r)
       \/ RunFetchOk(r)
       \/ RunNormalizeEnd(r)
       \/ RunNormalizeFails(r)
       \/ RunBatchConcatEnd(r)
       \/ RunBatchConcatError(r)
       \/ RunFinalConcatSettles(r)
  \/ Tick

SpecConcurrent == InitConcurrent /\ [][NextConcurrent]_vars

\* ------------- the batch handler on one request: seven URLs, batchSize = 3,
\* at most one segment failing, and that one at its fetch
InitScenario ==
  /\ HandlerInit([body |-> Body(TRUE, UrlList(7), FALSE, <<>>),
                  hasBatchSize |-> TRUE, batchSize |-> 3], "start", <<>>)
  /\ LegacyInit(LegacyRequest("POST", FALSE, FALSE, <<>>), "idle")
  /\ OthersIdle

\* a fetch of the scenario fails only if none has failed before it
ScenarioFetchFails == outcomes \subseteq {o \in outcomes : o.result = "ok"} /\ FetchFails
ScenarioFetchNotOk == outcomes \subseteq {o \in outcomes : o.result = "ok"} /\ FetchNotOk
ScenarioFetchOversize == outcomes \subseteq {o \in outcomes : o.result = "ok"} /\ FetchOversize

NextScenario ==
  \/ BuildTimeline
  \/ SplitBatches
  \/ BatchLoop
  \/ SegmentLoop
  \/ ScenarioFetchFails
  \/ ScenarioFetchNotOk
  \/ ScenarioFetchOversize
  \/ FetchOk
  \/ NormalizeEnd
  \/ SegmentPause
  \/ BatchEmpty
  \/ BatchConcatStart
  \/ BatchConcatEnd
  \/ BatchPause
  \/ MergeStart
  \/ FinalConcatEnd
  \/ Respond

SpecScenario == InitScenario /\ [][NextScenario]_vars

\* ------- the receipt of one response body (src/server.js, lines 344-355), in
\* chunks of 1 MB
\* buffer.length > 15 * 1024 * 1024, in MB
SizeCap == 15

InitFetch ==
  /\ HandlerInit([body |-> Body(FALSE, <<>>, FALSE, <<>>),
                  hasBatchSize |-> FALSE, batchSize |-> 0], "idle", <<>>)
  /\ LegacyInit(LegacyRequest("POST", FALSE, FALSE, <<>>), "idle")
  /\ ConcurrentInit(Run(0, 1, "idle"), Run(0, 1, "idle"))
  /\ ZoomInit(Body(FALSE, <<>>, FALSE, <<>>), "idle")
  /\ SubtitlesIdle
  /\ \E size \in 0..MaxBody : FetchInit(size, "receiving")

\* line 344: response.buffer() takes the next chunk into memory
ReceiveChunk ==
  /\ fpc = "receiving"
  /\ fbuffered < fsize
  /\ fbuffered' = fbuffered + 1
  /\ UNCHANGED <<fsize, fpc, hvars, lvars, cvars, zvars, svars>>

\* line 344 and 397-399: the body stream fails, the segment is dropped
ReceiveFails ==
  /\ fpc = "receiving"
  /\ fbuffered < fsize
  /\ fpc' = "failed"
  /\ UNCHANGED <<fsize, fbuffered, hvars, lvars, cvars, zvars, svars>>

\* lines 344-355: the whole body is in the buffer; only now its length is
\* compared with the cap
BufferResolves ==
  /\ fpc = "receiving"
  /\ fbuffered = fsize
  /\ fpc' = IF fbuffered > SizeCap THEN "skipped" ELSE "written"
  /\ UNCHANGED <<fsize, fbuffered, hvars, lvars, cvars, zvars, svars>>

NextFetch ==
  \/ ReceiveChunk
  \/ ReceiveFails
  \/ BufferResolves

SpecFetch == InitFetch /\ [][NextFetch]_vars

\* ------ the add-subtitles handler v2.9.3 (src/unnamed/part_003, lines 391-640)
\* approaches 1-4, in the order of the nested try / catch blocks
Approaches == <<"srt", "drawtext", "simple", "copy">>

\* an event of approach a
Event(a, what) == [approach |-> a, event |-> what]

SubtitlesRequests ==
  {SubtitlesRequest(u, s, n) : u \in BOOLEAN, s \in BOOLEAN, n \in 0..MaxSubtitles}

InitSubtitles ==
  /\ HandlerInit([body |-> Body(FALSE, <<>>, FALSE, <<>>),
                  hasBatchSize |-> FALSE, batchSize |-> 0], "idle", <<>>)
  /\ LegacyInit(LegacyRequest("POST", FALSE, FALSE, <<>>), "idle")
  /\ ConcurrentInit(Run(0, 1, "idle"), Run(0, 1, "idle"))
  /\ ZoomInit(Body(FALSE, <<>>, FALSE, <<>>), "idle")
  /\ FetchIdle
  /\ \E r \in SubtitlesRequests : SubtitlesInit(r, "start")

\* lines 396-423: validation, then the download starts
SubtitlesEnter ==
  /\ spc = "start"
  /\ IF ~sreq.hasVideoUrl \/ ~sreq.hasSubtitles \/ sreq.subtitles = 0
     THEN /\ sresponse' = SubtitlesResponse(400, FALSE)
          /\ spc' = "done"
     ELSE /\ spc' = "fetch"
          /\ UNCHANGED sresponse
  /\ UNCHANGED <<sreq, scur, slog, srunning, success, hvars, lvars, cvars, zvars, fvars>>

\* lines 423-426 and the handler's catch (640-646): the download fails
SubtitlesFetchFails ==
  /\ spc = "fetch"
  /\ sresponse' = SubtitlesResponse(500, FALSE)
  /\ spc' = "done"
  /\ UNCHANGED <<sreq, scur, slog, srunning, success, hvars, lvars, cvars, zvars, fvars>>

\* the rest of the handler once an approach has produced the output (lines
\* 605-638): existence check, read, cleanup, res.json
Finish(rendered) ==
  /\ sresponse' = SubtitlesResponse(200, rendered)
  /\ spc' = "done"

\* lines 428-498: the input is written and approach 1 started
SubtitlesFetchOk ==
  /\ spc = "fetch"
  /\ scur' = 1
  /\ slog' = Append(slog, Event(1, "start"))
  /\ spc' = "await"
  /\ UNCHANGED <<sreq, srunning, success, sresponse, hvars, lvars, cvars, zvars, fvars>>

\* 'end' of the awaited approach (lines 479, 540, 581): success = true; resolve()
ApproachEnd ==
  /\ spc = "await"
  /\ success' = TRUE
  /\ slog' = Append(slog, Event(scur, "end"))
  /\ Finish(TRUE)
  /\ UNCHANGED <<sreq, scur, srunning, hvars, lvars, cvars, zvars, fvars>>

\* the promise of the awaited approach rejects and the catch block starts the
\* next approach; approach 4 is fs.copyFileSync and is over at once
FailOver(what) ==
  LET log == Append(slog, Event(scur, what))
  IN  /\ scur' = scur + 1
      /\ IF Approaches[scur + 1] = "copy"
         THEN /\ slog' = log \o <<Event(scur + 1, "start"), Event(scur + 1, "end")>>
              /\ Finish(success)
         ELSE /\ slog' = Append(log, Event(scur + 1, "start"))
              /\ spc' = "await"
              /\ UNCHANGED sresponse

\* 'error' of the awaited approach (lines 489, 546, 587): reject(err)
ApproachError ==
  /\ spc = "await"
  /\ FailOver("error")
  /\ UNCHANGED <<sreq, srunning, success, hvars, lvars, cvars, zvars, fvars>>

\* the timer of the awaited approach fires (lines 458, 520, 566): it rejects,
\* the transcoder is not stopped
ApproachTimeout ==
  /\ spc = "await"
  /\ FailOver("timeout")
  /\ srunning' = srunning \cup {scur}
  /\ UNCHANGED <<sreq, success, hvars, lvars, cvars, zvars, fvars>>

\* a transcoder whose promise already timed out emits 'end': success = true,
\* resolve() does nothing any more
ApproachLateEnd ==
  /\ spc /= "done"
  /\ \E a \in srunning :
       /\ srunning' = srunning \ {a}
       /\ slog' = Append(slog, Event(a, "end"))
  /\ success' = TRUE
  /\ UNCHANGED <<sreq, spc, scur, sresponse, hvars, lvars, cvars, zvars, fvars>>

\* a transcoder whose promise already timed out emits 'error': nothing changes
ApproachLateError ==
  /\ spc /= "done"
  /\ \E a \in srunning :
       /\ srunning' = srunning \ {a}
       /\ slog' = Append(slog, Event(a, "error"))
  /\ UNCHANGED <<sreq, spc, scur, success, sresponse, hvars, lvars, cvars, zvars, fvars>>

NextSubtitles ==
  \/ SubtitlesEnter
  \/ SubtitlesFetchFails
  \/ SubtitlesFetchOk
  \/ ApproachEnd
  \/ ApproachError
  \/ ApproachTimeout
  \/ ApproachLateEnd
  \/ ApproachLateError

SpecSubtitles == InitSubtitles /\ [][NextSubtitles]_vars

\* ===================================================================== claims
Range(q) == {q[k] : k \in 1..Len(q)}

\* the segment loop of batch b has run to its end
SegmentLoopEnded(b) ==
  \/ batchIndex > b
  \/ batchIndex = b /\ pc \in {"batch_end", "batch_concat", "batch_pause", "done"}

\* the 0-based indices of the segments of batch b
SegmentsOf(b) == 0..(Len(batches[b + 1]) - 1)

Attempted(b, j) == \E o \in outcomes : o.b = b /\ o.i = j
Succeeded(b, j) == Outcome(b, j, "ok") \in outcomes

\* the concat invocations of one level
BatchCalls == {c \in Range(concatCalls) : c.level = "batch"}
FinalCalls == {c \in Range(concatCalls) : c.level = "final"}

\* C1: for every timeline S and every batchSize k >= 1, the batches the
\* batching loop produces, concatenated in batch order, are exactly S.
C1_PartitionLossless ==
  pc = "batch_loop" => Flatten(batches) = timeline

\* C1 witness: a timeline of two different segments split into at least two
\* batches, the last one shorter than batchSize
C1_Witness ==
  /\ pc = "batch_loop"
  /\ Len(batches) >= 2
  /\ Len(batches[Len(batches)]) < batchSize
  /\ Cardinality(Range(timeline)) = 2

\* the ways one segment fails: fetch error or abort, non-success status,
\* transcoder error, the 20 s processing timeout
SegmentFailures == {"fetch_error", "http_error", "ffmpeg_error", "timeout"}

\* C2: a failed segment is caught at the segment boundary: its clip is in no
\* manifest of its batch, every segment of its batch is attempted once the
\* segment loop has ended, and the run is answered with an error only by a
\* concat step or by the zero-output guard, never by the segment's failure.
C2_SegmentFailureIsolated ==
  \A o \in outcomes :
    o.result \in SegmentFailures =>
      /\ \A c \in BatchCalls : processedPath(o.b, o.i) \notin Range(c.manifest)
      /\ SegmentLoopEnded(o.b) => \A j \in SegmentsOf(o.b) : Attempted(o.b, j)
      /\ response.status = 500 =>
           response.error \in {"batch concat failed", "final concat failed"}
      /\ response.status = 400 => batchIndex = Len(batches)

\* C2 witness: a segment failed, a later segment of the same batch was
\* processed, and the run answered with success
C2_Witness ==
  /\ response.status = 200
  /\ \E o \in outcomes :
       /\ o.result \in SegmentFailures
       /\ \E j \in SegmentsOf(o.b) : j > o.i /\ Succeeded(o.b, j)

\* C3 (as claimed): a failing batch concat only skips its batch, so a run
\* ends in an error only after every batch has been processed (or with an
\* empty timeline, which has no batch).
C3_BatchConcatFailureIsBatchScoped ==
  (pc = "done" /\ response.status /= 200) => batchIndex >= Len(batches)

\* batch b ended its segment loop without a single clip
EmptyBatch(b) ==
  /\ b < Len(batches)
  /\ SegmentLoopEnded(b)
  /\ \A j \in SegmentsOf(b) : ~Succeeded(b, j)

\* C4: a batch without a clip is skipped: no concat is invoked for it, it has
\* no batch output in batchOutputs or in the final manifest, the run does not
\* stop at it, and once the run is over the next batch has been attempted.
C4_EmptyBatchSkipped ==
  \A b \in 0..(Len(batches) - 1) :
    EmptyBatch(b) =>
      /\ \A c \in BatchCalls : c.b /= b
      /\ batchOutputPath(b) \notin Range(batchOutputs)
      /\ \A c \in FinalCalls : batchOutputPath(b) \notin Range(c.manifest)
      /\ batchIndex = b => pc = "batch_end"
      /\ (pc = "done" /\ b + 1 < Len(batches)) => Attempted(b + 1, 0)

\* C4 witness: an empty batch is followed by a batch that produced a clip,
\* and the run answered with success
C4_Witness ==
  /\ response.status = 200
  /\ \E b \in 0..(Len(batches) - 2) : EmptyBatch(b) /\ Succeeded(b + 1, 0)

\* C5: with exactly one batch output, no final concat is invoked and the
\* bytes of the success response are read from that batch output.
C5_SingleOutputUsedDirectly ==
  Len(batchOutputs) = 1 =>
    /\ FinalCalls = {}
    /\ pc /= "final_concat"
    /\ response.status = 200 =>
         /\ response.readFrom = batchOutputs[1]
         /\ \E c \in BatchCalls :
              /\ c.output = batchOutputs[1]
              /\ Len(response.videoData) = Len(c.manifest)

\* C5 witness: a success response of a run with several batches of which
\* exactly one produced an output
C5_Witness ==
  /\ response.status = 200
  /\ Len(batchOutputs) = 1
  /\ Len(batches) >= 2

\* the batches with at least one clip
BatchesWithClips == {b \in 0..(Len(batches) - 1) : \E j \in SegmentsOf(b) : Succeeded(b, j)}

\* C6: a final manifest lists the outputs of exactly the batches that
\* produced one, in increasing batch index, none twice; the manifest file
\* the concat reads has these paths, line by line.
C6_FinalManifestInBatchOrder ==
  \A c \in FinalCalls :
    /\ Len(c.manifest) >= 2
    /\ \A j, k \in 1..Len(c.manifest) : j < k => c.manifest[j].b < c.manifest[k].b
    /\ Range(c.manifest) = {batchOutputPath(b) : b \in BatchesWithClips}
    /\ pc = "final_concat" => ManifestPaths(fs[finalConcatPath].lines) = c.manifest

\* C6 witness: three batches, the middle one failed, the other two merged
C6_Witness ==
  /\ Len(batches) = 3
  /\ \E c \in FinalCalls : c.manifest = <<batchOutputPath(0), batchOutputPath(2)>>
  /\ response.status = 200

\* C7 (as claimed): a run of an accepted request that ends without any batch
\* output ends in the 400 'No videos processed successfully in any batch',
\* without video bytes.
C7_NoOutputMeansNoSegmentsError ==
  (pc = "done" /\ ~Rejected(req.body) /\ Len(batchOutputs) = 0) =>
    /\ response.status = 400
    /\ response.error = "No videos processed successfully in any batch"
    /\ response.videoData = <<>>

\* C8: an empty timeline never leads to a fetch, a transcode or a concat, and
\* the run ends in a 400 error without video bytes.
C8_EmptyTimelineIsFatal ==
  (pc /= "start" /\ timeline = <<>>) =>
    /\ fetchLog = <<>>
    /\ ffmpegLog = <<>>
    /\ concatCalls = <<>>
    /\ DOMAIN fs = {}
    /\ pc = "done" => (response.status = 400 /\ response.videoData = <<>>)

\* C8 witness: tracks without video keyframes, next to a non-empty videoUrls,
\* ended in the error
C8_Witness ==
  /\ pc = "done"
  /\ UsesTracks(req.body)
  /\ req.body.hasVideoUrls
  /\ timeline = <<>>
  /\ response.status = 400

\* C9 (as claimed): no handler invokes the concatenator with an empty
\* manifest, at batch level or at final level.
C9_NoEmptyManifest ==
  /\ \A c \in Range(concatCalls) : c.manifest /= <<>>
  /\ \A m \in Range(lconcat) : m /= <<>>

\* C10 (as claimed): once a segment's normalization has ended, with success,
\* a transcoder error or the processing timeout, its original file is gone.
C10_OriginalDeleted ==
  \A o \in outcomes :
    o.result \in {"ok", "ffmpeg_error", "timeout"} =>
      originalPath(o.b, o.i) \notin DOMAIN fs

\* C11 (as claimed): when the response is sent, on any exit path, no scratch
\* file of the run is left.
C11_ScratchEmptyAtResponse ==
  pc = "done" => DOMAIN fs = {}

\* C12 (as claimed): after the timeout of a transcoder invocation has
\* expired, no process of that invocation is still running.
C12_TimedOutProcessTerminated ==
  \A o \in outcomes :
    o.result = "timeout" => [b |-> o.b, i |-> o.i] \notin running

\* the transcoder processes of the run that are running: the one the handler
\* awaits, and those whose promise timed out
AwaitedProcesses == IF pc \in {"normalize", "batch_concat", "final_concat"} THEN 1 ELSE 0
RunningProcesses == Cardinality(running) + AwaitedProcesses

\* C14 (as claimed): at most batchSize transcoder processes of the run are
\* running at any moment.
C14_ProcessesBoundedByBatchSize ==
  RunningProcesses <= batchSize

\* C15: the manifest of a batch lists clips of that batch only, in strictly
\* increasing segment index, exactly those of the segments that succeeded;
\* the manifest file the concat reads has these paths, line by line.
C15_BatchManifestInOrdinalOrder ==
  \A c \in BatchCalls :
    /\ \A k \in 1..Len(c.manifest) :
         c.manifest[k].kind = "processed" /\ c.manifest[k].b = c.b
    /\ \A j, k \in 1..Len(c.manifest) : j < k => c.manifest[j].i < c.manifest[k].i
    /\ Range(c.manifest) = {processedPath(c.b, j) : j \in {x \in SegmentsOf(c.b) : Succeeded(c.b, x)}}
    /\ (pc = "batch_concat" /\ batchIndex = c.b) =>
         ManifestPaths(fs[concatPath(c.b)].lines) = c.manifest

\* C15 witness: a batch of three segments whose middle one failed, its concat
\* invoked on the first and the third clip
C15_Witness ==
  \E c \in BatchCalls :
    /\ c.manifest = <<processedPath(c.b, 0), processedPath(c.b, 2)>>
    /\ \E o \in outcomes : o.b = c.b /\ o.i = 1 /\ o.result /= "ok"

\* C17 (as claimed): every per-segment transcode trims to the duration of
\* its own segment.
C17_TrimmedToOwnDuration ==
  \A k \in 1..Len(ffmpegLog) :
    ffmpegLog[k].seconds = batches[ffmpegLog[k].b + 1][ffmpegLog[k].i + 1].duration

\* the segments of batch b that succeeded, from index j on, in batch order
RECURSIVE KeepSucceeded(_, _)
KeepSucceeded(b, j) ==
  IF j >= Len(batches[b + 1]) THEN <<>>
  ELSE (IF Succeeded(b, j) THEN <<batches[b + 1][j + 1]>> ELSE <<>>)
       \o KeepSucceeded(b, j + 1)

\* the segments of the run that succeeded, in timeline order
SurvivingSegments == Flatten([b \in 1..Len(batches) |-> KeepSucceeded(b - 1, 0)])

Urls(q) == [k \in 1..Len(q) |-> q[k].url]

RECURSIVE SumSeconds(_)
SumSeconds(clips) == IF clips = <<>> THEN 0 ELSE Head(clips).seconds + SumSeconds(Tail(clips))
RECURSIVE SumDuration(_)
SumDuration(segs) == IF segs = <<>> THEN 0 ELSE Head(segs).duration + SumDuration(Tail(segs))

\* no concat step of the run emitted 'error'
NoConcatFailure == response.error \notin {"batch concat failed", "final concat failed"}

FailedOutcomes == {o \in outcomes : o.result /= "ok"}
FullBatch(b) == \A j \in SegmentsOf(b) : Succeeded(b, j)
FailedBatch(b) == \A j \in SegmentsOf(b) : \E o \in FailedOutcomes : o.b = b /\ o.i = j
AllBatches == 0..(Len(batches) - 1)

\* C18 (as claimed): a run of a non-empty timeline whose segments all
\* fetched and normalized (and whose concat steps did not fail) answers with
\* success, attempted = succeeded = len(timeline), every clip once in timeline
\* order, and an output as long as the sum of the segments' durations.
C18_AllSucceedFullOutput ==
  (/\ pc = "done"
   /\ timeline /= <<>>
   /\ NoConcatFailure
   /\ \A b \in AllBatches : FullBatch(b)) =>
    /\ response.status = 200
    /\ response.videosAttempted = Len(timeline)
    /\ Len(response.videoData) = Len(timeline)
    /\ Urls(response.videoData) = Urls(timeline)
    /\ SumSeconds(response.videoData) = SumDuration(timeline)

C20_FailedBatchLeftOut ==
  (/\ pc = "done"
   /\ NoConcatFailure
   /\ \E b \in AllBatches : FailedBatch(b)
   /\ \E b \in AllBatches : FullBatch(b)) =>
    /\ response.status = 200
    /\ Urls(response.videoData) = Urls(SurvivingSegments)
    /\ \A b \in AllBatches : FailedBatch(b) =>
         \A j \in SegmentsOf(b) :
           batches[b + 1][j + 1].url \notin Range(Urls(response.videoData))
    /\ response.totalBatches = Len(batches)
    /\ response.batchesProcessed = Cardinality(BatchesWithClips)
    /\ response.batchesProcessed < response.totalBatches

\* C20 witness: a success response of a run with a batch of two failed
\* segments and a fully succeeded batch
C20_Witness ==
  /\ response.status = 200
  /\ \E b \in AllBatches : FailedBatch(b) /\ Len(batches[b + 1]) = 2
  /\ \E b \in AllBatches : FullBatch(b)


\* C16: every clip handed to a stream-copy concat of one run was encoded with
\* the same target spec (width, height, frame rate, video codec, audio codec,
\* quality level), whether it came from the first attempt or from the retry
\* without the zoom effect; in the batch handler every transcoder invocation
\* of a run uses one target spec.
C16_UniformTargetSpec ==
  /\ \A c \in Range(zconcat) :
        \A j, k \in 1..Len(c.clips) :
          TargetSpec(c.clips[j].options) = TargetSpec(c.clips[k].options)
  /\ \A j, k \in 1..Len(ffmpegLog) :
        TargetSpec(ffmpegLog[j].options) = TargetSpec(ffmpegLog[k].options)

\* a concat has received a clip of the first attempt next to a clip of the retry
C16_Witness ==
  \E c \in Range(zconcat) :
    \E j, k \in 1..Len(c.clips) : c.clips[j].options.zoom /\ ~c.clips[k].options.zoom


\* C13: while two runs of the pipeline are both in flight, no scratch path
\* (original, clip, manifest, batch output, final output) has been written,
\* read or deleted by both of them.
C13_RunsUseDistinctPaths ==
  (runs[1].pc /= "done" /\ runs[2].pc /= "done") => touched[1] \cap touched[2] = {}


\* C21: a success response reports counts that fit the artifact it returns:
\* the number of videos it says were sequenced is the number of clips in the
\* output, and the total duration it reports is the length of those clips.
C21_CountsMatchArtifact ==
  (pc = "done" /\ response.status = 200) =>
    /\ response.sequenced = Len(response.videoData)
    /\ response.totalDuration = SumSeconds(response.videoData)


\* C22: seven segments with batchSize = 3 give batches of sizes 3, 3, 1; when
\* segment 5 (batch 2, index 1) fails to fetch, batch 2 is concatenated from
\* its two other clips, there are three batch outputs, the final concat takes
\* the three in batch order, and the result reports 7 segments attempted,
\* 6 sequenced, 3 batches attempted and 3 batches done.
C22_SevenSegmentsOneFetchFailure ==
  (/\ pc = "done"
   /\ \E o \in outcomes :
        o.b = 1 /\ o.i = 1 /\ o.result \in {"fetch_error", "http_error", "oversize"}) =>
    /\ [b \in 1..Len(batches) |-> Len(batches[b])] = <<3, 3, 1>>
    /\ \E c \in BatchCalls :
         c.b = 1 /\ c.manifest = <<processedPath(1, 0), processedPath(1, 2)>>
    /\ batchOutputs = <<batchOutputPath(0), batchOutputPath(1), batchOutputPath(2)>>
    /\ \E c \in FinalCalls : c.manifest = batchOutputs
    /\ response.status = 200
    /\ Len(response.videoData) = 6
    /\ response.videosAttempted = 7
    /\ response.sequenced = 6
    /\ response.totalBatches = 3
    /\ response.batchesProcessed = 3


\* C23: for a timeline of length n and a batchSize k >= 1 the batching loop
\* yields ceil(n/k) batches; batch b (0-based) is the contiguous run of the
\* timeline from position b*k up to (b+1)*k or the end, so it is non-empty, has
\* at most k segments, and only the last batch may have fewer than k.
C23_BatchShape ==
  pc = "batch_loop" =>
    LET n == Len(timeline)
        k == batchSize
    IN  /\ Len(batches) = (n + k - 1) \div k
        /\ \A b \in 1..Len(batches) :
             /\ batches[b] = SubSeq(timeline, (b - 1) * k + 1, Min(b * k, n))
             /\ Len(batches[b]) >= 1
             /\ Len(batches[b]) <= k
             /\ b < Len(batches) => Len(batches[b]) = k

\* five segments split by two: three batches, the last of one segment
C23_Witness ==
  /\ pc = "batch_loop"
  /\ Len(timeline) = 5
  /\ batchSize = 2
  /\ Len(batches) = 3
  /\ Len(batches[3]) = 1


\* C24: a segment answered with a non-success status, or whose body is over
\* the size cap, is rejected alone: neither its original nor its clip is ever
\* in the scratch directory, no transcoder is invoked for it, its clip is in no
\* manifest, the other segments of its batch are still attempted, and the
\* rejection is not what ends the run in an error.
C24_RejectedSegmentLeavesNoTrace ==
  \A o \in outcomes :
    o.result \in {"http_error", "oversize"} =>
      /\ originalPath(o.b, o.i) \notin DOMAIN fs
      /\ processedPath(o.b, o.i) \notin DOMAIN fs
      /\ \A k \in 1..Len(ffmpegLog) : ~(ffmpegLog[k].b = o.b /\ ffmpegLog[k].i = o.i)
      /\ \A c \in BatchCalls : processedPath(o.b, o.i) \notin Range(c.manifest)
      /\ SegmentLoopEnded(o.b) => \A j \in SegmentsOf(o.b) : Attempted(o.b, j)
      /\ response.status = 500 =>
           response.error \in {"batch concat failed", "final concat failed"}

\* an oversize segment and a non-ok segment were rejected, a later segment of
\* the batch became a clip, and the run answered with success
C24_Witness ==
  /\ response.status = 200
  /\ \E o \in outcomes : o.result = "http_error"
  /\ \E o \in outcomes :
       /\ o.result = "oversize"
       /\ \E j \in SegmentsOf(o.b) : j > o.i /\ Succeeded(o.b, j)


\* C25: the size cap is enforced while the body is being received: memory
\* never holds more of a body than the cap plus the chunk that crossed it.
C25_CapEnforcedWhileReceiving ==
  fbuffered <= SizeCap + 1


\* batch b is over: its concat has ended and its output is kept, or it had
\* no clip and was skipped
BatchOver(b) == batchOutputPath(b) \in Range(batchOutputs) \/ EmptyBatch(b)

\* C26: batches are processed one after the other in batch order: whenever a
\* fetch or a transcode of a batch has been started, every earlier batch is
\* over, and the fetches were started in non-decreasing batch order.
C26_BatchesSequential ==
  /\ \A k \in 1..Len(fetchLog) : \A b \in 0..(fetchLog[k].b - 1) : BatchOver(b)
  /\ \A k \in 1..Len(ffmpegLog) : \A b \in 0..(ffmpegLog[k].b - 1) : BatchOver(b)
  /\ \A j, k \in 1..Len(fetchLog) : j < k => fetchLog[j].b <= fetchLog[k].b

\* the third batch is being fetched after a concatenated first batch and a
\* skipped second batch
C26_Witness ==
  /\ \E k \in 1..Len(fetchLog) : fetchLog[k].b = 2
  /\ batchOutputPath(0) \in Range(batchOutputs)
  /\ EmptyBatch(1)


\* C27: on the flat-URL path the timeline has the length and the order of
\* videoUrls: the k-th URL (0-based) is the k-th segment, its source is the
\* item's mp4_url (or the item itself), its offset 5*k seconds, its duration 5.
C27_FlatTimelineShape ==
  (pc \notin {"start", "idle"} /\ ~UsesTracks(req.body) /\ req.body.hasVideoUrls) =>
    /\ Len(timeline) = Len(req.body.videoUrls)
    /\ \A k \in 0..(Len(timeline) - 1) :
         /\ timeline[k + 1].url = req.body.videoUrls[k + 1].value
         /\ timeline[k + 1].timestamp = 5 * k
         /\ timeline[k + 1].duration = 5

\* three URLs, the second an object with mp4_url, have become three segments
C27_Witness ==
  /\ pc = "batching"
  /\ ~UsesTracks(req.body)
  /\ Len(req.body.videoUrls) = 3
  /\ req.body.videoUrls[2].isObject
  /\ timeline[3].timestamp = 10


\* the scratch files of batch work: originals, clips and batch manifests
BatchScratch == {p \in DOMAIN fs : p.kind \in {"original", "processed", "concat"}}

\* C28: in a run in which no fetch, normalize or concat has failed, the
\* originals, clips and manifest of a batch exist only while that batch is
\* being processed (they are gone before the pause that precedes the next
\* batch), and nothing at all is left in the scratch directory once the
\* success response is sent.
C28_NothingLeftAfterSuccess ==
  (FailedOutcomes = {} /\ response.status \in {0, 200}) =>
    /\ \A p \in BatchScratch :
         /\ p.b = batchIndex
         /\ pc \in {"seg_loop", "fetch", "normalize", "pause", "batch_end", "batch_concat"}
    /\ pc = "done" => DOMAIN fs = {}

\* a run of two batches, every step successful, has sent its result
C28_Witness ==
  /\ pc = "done"
  /\ response.status = 200
  /\ FailedOutcomes = {}
  /\ Len(batches) >= 2
  /\ response.readFrom = finalSequencedPath
  /\ DOMAIN fs = {}


\* the clips of batch b from segment j on, as the outcomes alone determine them
RECURSIVE SucceededPaths(_, _)
SucceededPaths(b, j) ==
  IF j >= Len(batches[b + 1]) THEN <<>>
  ELSE (IF Succeeded(b, j) THEN <<processedPath(b, j)>> ELSE <<>>)
       \o SucceededPaths(b, j + 1)

\* the batch manifests and the batch outputs from batch b on, likewise
RECURSIVE ManifestsByOutcome(_)
ManifestsByOutcome(b) ==
  IF b >= Len(batches) THEN <<>>
  ELSE (IF SucceededPaths(b, 0) = <<>> THEN <<>> ELSE <<SucceededPaths(b, 0)>>)
       \o ManifestsByOutcome(b + 1)
RECURSIVE OutputsByOutcome(_)
OutputsByOutcome(b) ==
  IF b >= Len(batches) THEN <<>>
  ELSE (IF SucceededPaths(b, 0) = <<>> THEN <<>> ELSE <<batchOutputPath(b)>>)
       \o OutputsByOutcome(b + 1)

\* C29: the structure of a finished run is a function of its timeline, its
\* batchSize and the outcome of each segment (no concat step failing): the
\* batches, the manifests of all concat invocations in order, the clips of
\* the result, the attempted and processed counts and the reported duration.
\* Two runs that agree on these inputs therefore agree on the structure.
C29_StructureDeterminedByOutcomes ==
  (pc = "done" /\ NoConcatFailure /\ ~Rejected(req.body)) =>
    LET n == Len(timeline)
        k == batchSize
        outs == OutputsByOutcome(0)
    IN  /\ batches = [b \in 1..((n + k - 1) \div k) |->
                        SubSeq(timeline, (b - 1) * k + 1, Min(b * k, n))]
        /\ [c \in 1..Len(concatCalls) |-> concatCalls[c].manifest]
             = ManifestsByOutcome(0) \o (IF Len(outs) >= 2 THEN <<outs>> ELSE <<>>)
        /\ batchOutputs = outs
        /\ response.status = IF outs = <<>> THEN 400 ELSE 200
        /\ response.status = 200 =>
             /\ Urls(response.videoData) = Urls(SurvivingSegments)
             /\ response.videosAttempted = n
             /\ response.batchesProcessed = Len(outs)
             /\ response.totalBatches = (n + k - 1) \div k
             /\ response.totalDuration = 5 * n

\* a finished run of two batches in which one transcode timed out and that
\* transcoder ended later
C29_Witness ==
  /\ pc = "done"
  /\ response.status = 200
  /\ Len(concatCalls) = 3
  /\ \E o \in outcomes : o.result = "timeout" /\ [b |-> o.b, i |-> o.i] \notin running


\* C30: the approaches SRT, multi-drawtext, single-drawtext, copy-original
\* are tried strictly in that order: an approach is started only after every
\* earlier one has failed or timed out, and no later approach is started
\* once one has succeeded.
C30_ApproachesInOrder ==
  /\ \A p \in 1..Len(slog) :
       slog[p].event = "start" =>
         \A e \in 1..(slog[p].approach - 1) :
           \E q \in 1..(p - 1) :
             slog[q].approach = e /\ slog[q].event \in {"error", "timeout"}
  /\ \A p, q \in 1..Len(slog) :
       (p < q /\ slog[p].event = "end" /\ slog[q].event = "start") =>
         slog[q].approach <= slog[p].approach


\* the positions in zlog of the transcoder invocations of segment j made with
\* options o
ZoomAttempts(j, o) == {k \in 1..Len(zlog) : zlog[k].i = j /\ zlog[k].options = o}
\* the resolve / reject calls of the promise of segment j
ZoomSettled(j) == {k \in 1..Len(zsettle) : zsettle[k].i = j}

\* C31: in the zoom handler a segment is transcoded at most once with the
\* zoom settings and, only after that, at most once with the no-zoom settings
\* on the same paths; its promise is settled exactly once; it is rejected
\* only after the retry was made, and its clip is in processedFiles (and so
\* in the manifest, with a clip of one of the two attempts behind every
\* manifest line) exactly when the promise was resolved.
C31_RetriedOnceSettledOnce ==
  /\ \A j \in 0..(Len(ztimeline) - 1) :
       /\ Cardinality(ZoomAttempts(j, ZoomOptions)) <= 1
       /\ Cardinality(ZoomAttempts(j, FallbackOptions)) <= 1
       /\ \A k \in ZoomAttempts(j, FallbackOptions) :
            \E p \in ZoomAttempts(j, ZoomOptions) :
              /\ p < k
              /\ zlog[k].input = zlog[p].input
              /\ zlog[k].output = zlog[p].output
       /\ Cardinality(ZoomSettled(j)) <= 1
       /\ (j < zi /\ ZoomAttempts(j, ZoomOptions) /= {}) => Cardinality(ZoomSettled(j)) = 1
       /\ \A k \in ZoomSettled(j) :
            zsettle[k].call = "reject" => ZoomAttempts(j, FallbackOptions) /= {}
       /\ zoomProcessedPath(j) \in Range(zprocessed)
            <=> \E k \in ZoomSettled(j) : zsettle[k].call = "resolve"
  /\ \A c \in Range(zconcat) :
       /\ c.manifest = zprocessed
       /\ Len(c.clips) = Len(c.manifest)
       /\ \A k \in 1..Len(c.clips) : c.clips[k].options \in {ZoomOptions, FallbackOptions}

\* the concat has received the clip of a retry while another segment, whose
\* two attempts both failed, is missing from the manifest
C31_Witness ==
  /\ \E c \in Range(zconcat) : \E k \in 1..Len(c.clips) : c.clips[k].options = FallbackOptions
  /\ \E k \in 1..Len(zsettle) : zsettle[k].call = "reject"


\* ------------------------------ the batching loop, one iteration at a time
\* batchSize is taken from req.body unvalidated (line 279): a request can
\* supply zero and negative integers as well
MinSplit == 2
SuppliedBatchSizes == (0 - MinSplit)..MaxSplit

\* iterations followed before the model stops following a loop; more than
\* any timeline's length, so that no loop with batchSize >= 1 is cut short
MaxIterations == MaxTimeline + 2

InitBatchLoop ==
  /\ \E tl \in SeqsUpTo(BatchingSegments, MaxTimeline), k \in SuppliedBatchSizes :
       HandlerInit([body |-> Body(FALSE, <<>>, FALSE, <<>>),
                    hasBatchSize |-> TRUE, batchSize |-> k], "splitting", tl)
  /\ LegacyInit(LegacyRequest("POST", FALSE, FALSE, <<>>), "idle")
  /\ OthersIdle

\* lines 310-312: the test i < timeline.length holds; the body pushes
\* timeline.slice(i, i + batchSize) and the update is i += batchSize
SplitStep ==
  /\ pc = "splitting"
  /\ i < Len(timeline)
  /\ Len(batches) < MaxIterations
  /\ batches' = Append(batches, JsSlice(timeline, i, i + batchSize))
  /\ i' = i + batchSize
  /\ UNCHANGED <<req, pc, timeline, batchIndex, processedFiles, batchOutputs,
                 finalOutputPath, fs, running, outcomes, fetchLog, ffmpegLog,
                 concatCalls, response, lvars, cvars, zvars, fvars, svars>>

\* line 310: the test i < timeline.length fails and the loop is left
SplitExit ==
  /\ pc = "splitting"
  /\ i >= Len(timeline)
  /\ i' = 0
  /\ batchOutputs' = <<>>
  /\ batchIndex' = 0
  /\ pc' = "batch_loop"
  /\ UNCHANGED <<req, timeline, batches, processedFiles, finalOutputPath, fs, running,
                 outcomes, fetchLog, ffmpegLog, concatCalls, response, lvars, cvars,
                 zvars, fvars, svars>>

NextBatchLoop == SplitStep \/ SplitExit

SpecBatchLoop == InitBatchLoop /\ [][NextBatchLoop]_vars

\* C32: the batching loop terminates with a finite list of batches for every
\* batchSize a request can supply, zero and negative integers included:
\* every iteration of the loop moves the counter forward, towards
\* timeline.length, and the loop never pushes more batches than the timeline
\* has segments
C32_LoopAdvances ==
  [][(pc = "splitting" /\ pc' = "splitting" /\ batches' /= batches)
       => (i' > i /\ Len(batches') <= Len(timeline))]_vars

\* the loop behaves as C32 says exactly when batchSize >= 1: the list it
\* leaves is the one SplitIntoBatches computes
C32_PositiveSizesSplit ==
  (pc = "batch_loop" /\ batchSize >= 1) => batches = SplitIntoBatches(timeline, batchSize)

\* a loop with batchSize 0 has pushed more batches than the timeline has segments
C32_Runaway ==
  /\ pc = "splitting"
  /\ batchSize = 0
  /\ Len(batches) > Len(timeline)
  /\ i = 0


\* --------------------------------------------- the batch handler, scheduled
\* the handler's own synchronous steps: Node runs them as soon as the
\* awaited promise has settled
HandlerSteps ==
  \/ BuildTimeline
  \/ SplitBatches
  \/ BatchLoop
  \/ SegmentLoop
  \/ BatchEmpty
  \/ BatchConcatStart
  \/ NoOutputs
  \/ SingleOutput
  \/ MergeStart
  \/ Respond

\* lines 336-353: the fetch completes or is aborted by its 15 s timeout
FetchSettles == FetchFails \/ FetchNotOk \/ FetchOversize \/ FetchOk

\* lines 360-362, 395 and 437: the timers of the event loop fire
TimersFire == NormalizeTimeout \/ SegmentPause \/ BatchPause

\* the events of a transcoder process ('end', 'error') are not scheduled:
\* an external process may never emit either
SpecLive ==
  /\ Init
  /\ [][Next]_vars
  /\ WF_vars(HandlerSteps)
  /\ WF_vars(FetchSettles)
  /\ WF_vars(TimersFire)

\* C33: with batchSize >= 1 and every fetch completing or being aborted,
\* every run eventually sends its one success or error response, whatever
\* the transcoder processes do
C33_RunTerminates == <>(pc = "done")

\* a normalize step whose transcoder emits nothing is ended by its timer,
\* so a run never waits for ever on a segment
C33_SegmentsNeverHang == (pc = "normalize") ~> (pc /= "normalize")


\* C34: a clip whose normalize step timed out never appears in any manifest:
\* its path is never in processedFiles nor in the manifest of a concat
\* invocation, and whatever the timed-out transcoder emits later, "timeout"
\* stays the one outcome of its segment.
C34_TimedOutClipInNoManifest ==
  \A o \in outcomes :
    o.result = "timeout" =>
      /\ processedPath(o.b, o.i) \notin Range(processedFiles)
      /\ \A c \in Range(concatCalls) : processedPath(o.b, o.i) \notin Range(c.manifest)
      /\ \A p \in outcomes : (p.b = o.b /\ p.i = o.i) => p = o

\* a transcoder ended after its timeout, while its batch was still the
\* current one, and left its clip in the scratch directory; the batch was
\* then concatenated from the other clips
C34_Witness ==
  \E o \in outcomes :
    /\ o.result = "timeout"
    /\ [b |-> o.b, i |-> o.i] \notin running
    /\ processedPath(o.b, o.i) \in DOMAIN fs
    /\ \E c \in BatchCalls : c.b = o.b


\* the transcoding approach a ended normally before its own timer fired
TimelyEnd(a) ==
  \E p \in 1..Len(slog) :
    /\ slog[p] = Event(a, "end")
    /\ \A q \in 1..(p - 1) : slog[q] /= Event(a, "timeout")

\* C35: subtitlesRendered is true in the response only if the returned output
\* file was produced by a strategy that completed before its own timeout: the
\* approach the handler ended on is a transcoding one and its 'end' came
\* before its timer; the late 'end' of a timed-out strategy does not set the
\* flag.
C35_RenderedOnlyByTimelyEnd ==
  (spc = "done" /\ sresponse.subtitlesRendered) =>
    /\ Approaches[scur] /= "copy"
    /\ TimelyEnd(scur)

\* the handler ended on the copy of the original and answered
\* subtitlesRendered: true
C35_CopyReportedAsRendered ==
  /\ spc = "done"
  /\ sresponse = SubtitlesResponse(200, TRUE)
  /\ Approaches[scur] = "copy"


\* the transcoder processes that are writing outputPath: those whose timer
\* fired and that have not ended, and the one being awaited
OutputWriters == srunning \cup (IF spc = "await" THEN {scur} ELSE {})

\* C36: at most one transcoder process at a time writes the output path:
\* when a later strategy starts writing outputPath, no process of an
\* earlier strategy is still writing it.
C36_OneWriterOfOutput == Cardinality(OutputWriters) <= 1

\* the drawtext approach is awaited while the timed-out SRT process is alive
C36_TwoWriters ==
  /\ spc = "await"
  /\ Approaches[scur] = "drawtext"
  /\ srunning = {1}


\* the 1-based place in the timeline of segment i of batch b
TimelinePlace(b, j) == b * batchSize + j + 1

\* no segment is attempted twice and the attempts follow the timeline: the
\* k-th fetch of a run is the fetch of the k-th segment, and the transcodes
\* are of fetched segments, each at most once, in timeline order
AttemptsFollowTimeline ==
  /\ Len(fetchLog) <= Len(timeline)
  /\ \A k \in 1..Len(fetchLog) :
       /\ TimelinePlace(fetchLog[k].b, fetchLog[k].i) = k
       /\ fetchLog[k].url = timeline[k].url
  /\ \A k \in 1..Len(ffmpegLog) :
       TimelinePlace(ffmpegLog[k].b, ffmpegLog[k].i) <= Len(fetchLog)
  /\ \A j, k \in 1..Len(ffmpegLog) :
       j < k => TimelinePlace(ffmpegLog[j].b, ffmpegLog[j].i)
                  < TimelinePlace(ffmpegLog[k].b, ffmpegLog[k].i)

\* C37: every segment of the timeline is attempted exactly once per run, in
\* timeline order: fetched at most once and transcoded at most once, without
\* retry, and at the end of the run no segment is left without an attempt.
C37_EverySegmentAttemptedOnce ==
  /\ AttemptsFollowTimeline
  /\ (pc = "done" /\ ~Rejected(req.body)) => Len(fetchLog) = Len(timeline)

\* the same, for the runs that no concat 'error' ended
C37_AttemptedOnceUnlessAborted ==
  /\ AttemptsFollowTimeline
  /\ (pc = "done" /\ ~Rejected(req.body) /\ NoConcatFailure) => Len(fetchLog) = Len(timeline)

\* a run ended by the 'error' of its first batch concat, the segments of the
\* later batches never fetched
C37_AbortedBeforeLastBatch ==
  /\ pc = "done"
  /\ response.error = "batch concat failed"
  /\ Len(fetchLog) < Len(timeline)


\* C38: every request to the batch handler results in at most one HTTP
\* response: a response is only ever sent while none has been sent, and
\* sending it ends the run, so no path sends an error and a success, or any
\* response twice.
C38_AtMostOneResponse ==
  [][(response' /= response \/ (pc /= "done" /\ pc' = "done"))
       => (response = NoResponse /\ response' /= NoResponse
           /\ pc /= "done" /\ pc' = "done")]_vars

\* a run that had two batch outputs ended in the handler's catch, on the
\* 'error' of the final concat, with the 500 as its response
C38_Witness ==
  /\ pc = "done"
  /\ Len(batchOutputs) >= 2
  /\ response = ErrorResponse(500, "final concat failed")


\* the tracks of type 'video' of a track list, by position
VideoTracks(tracks) == {v \in 1..Len(tracks) : tracks[v].type = "video"}

\* C39: with a non-empty tracks list the timeline is taken only from the
\* first track of type 'video' and videoUrls is ignored: it is that track's
\* keyframes, and empty when there is no video track or the first one has no
\* keyframes, whatever videoUrls holds; a request with neither tracks nor
\* videoUrls is rejected with a 400 before any scratch file is created.
C39_TracksTakePrecedence ==
  LET b == req.body
      first == CHOOSE v \in VideoTracks(b.tracks) : \A w \in VideoTracks(b.tracks) : v <= w
  IN  /\ (pc \notin {"start", "idle"} /\ b.hasTracks /\ Len(b.tracks) > 0) =>
           /\ pc = "done" => response.error /= "Either videoUrls array or tracks array is required"
           /\ timeline = IF VideoTracks(b.tracks) /= {} /\ b.tracks[first].hasKeyframes
                         THEN b.tracks[first].keyframes
                         ELSE <<>>
      /\ (pc \notin {"start", "idle"} /\ ~b.hasTracks /\ ~b.hasVideoUrls) =>
           /\ pc = "done"
           /\ response = ErrorResponse(400, "Either videoUrls array or tracks array is required")
           /\ DOMAIN fs = {}
           /\ fetchLog = <<>> /\ ffmpegLog = <<>> /\ concatCalls = <<>>

\* a request with a video track of two keyframes and a non-empty videoUrls
\* ended in a success whose clips are those of the keyframes
C39_Witness ==
  /\ pc = "done"
  /\ response.status = 200
  /\ req.body.hasVideoUrls /\ Len(req.body.videoUrls) > 0
  /\ UsesTracks(req.body)
  /\ Urls(response.videoData) = Urls(Keyframes(2))

====
